---- MODULE Spec2Model ----
(***************************************************************************)
(* Model of the binning and predictive-power engine of simply-eda-app:     *)
(*   src/src/iv_analysis.py  bin_target_for_iv, compute_iv, categorize_iv, *)
(*                           show_iv_analysis                              *)
(*   src/lift_analysis.py    build_lift_reports, show_lift_analysis        *)
(* A column is a sequence of cells; a cell is a number or NaN (missing).   *)
(* Real numbers are exact rationals <<num, den>> with den > 0; a NaN       *)
(* number (the median of an empty column, 0/0) is the empty tuple.         *)
(***************************************************************************)
EXTENDS Integers, Sequences, FiniteSets, TLC

VARIABLES
    df,     \* the dataset handed to the call: column name -> column
    args,   \* the arguments of the call
    ret,    \* what the call returned or raised ("pending" before the call)
    prev,   \* what the previous call with these arguments returned
    session_state   \* st.session_state: key -> value, kept from one rerun to the next

vars == <<df, args, ret, prev, session_state>>

\* The missing-value marker of a cell (numpy.nan inside a column).
NaN == -1

\* Python's None for an optional argument; Some(x) is a supplied argument.
None == <<>>
Some(x) == <<x>>

(***************************************************************************)
(* Arithmetic helpers: rationals, sorting.                                 *)
(***************************************************************************)
NaNR == <<>>
Rat(n, d) == <<n, d>>
IsNaNR(r) == r = NaNR

\* cell >= threshold as pandas evaluates it: any comparison with NaN is False.
GeThr(v, thr) == v # NaN /\ ~IsNaNR(thr) /\ v * thr[2] >= thr[1]
GtThr(v, thr) == v # NaN /\ ~IsNaNR(thr) /\ v * thr[2] > thr[1]

RECURSIVE Insert(_, _)
Insert(x, xs) ==
    IF xs = <<>> THEN <<x>>
    ELSE IF x <= Head(xs) THEN <<x>> \o xs
    ELSE <<Head(xs)>> \o Insert(x, Tail(xs))

RECURSIVE Sort(_)
Sort(xs) == IF xs = <<>> THEN <<>> ELSE Insert(Head(xs), Sort(Tail(xs)))

NotNa(col) == SelectSeq(col, LAMBDA v : v # NaN)

RECURSIVE SumSeq(_)
SumSeq(xs) == IF xs = <<>> THEN 0 ELSE Head(xs) + SumSeq(Tail(xs))

\* Series.median(): NaN skipped; mean of the two middle values for an even count;
\* NaN for a column with no value.
Median(col) ==
    LET xs == Sort(NotNa(col))
        n == Len(xs)
    IN IF n = 0 THEN NaNR
       ELSE IF n % 2 = 1 THEN Rat(xs[(n + 1) \div 2], 1)
       ELSE Rat(xs[n \div 2] + xs[n \div 2 + 1], 2)

\* Series.quantile(q), q = qn/qd in [0,1]: NaN skipped, linear interpolation at the
\* 0-based position q*(n-1); NaN for a column with no value.
Quantile(col, qn, qd) ==
    LET xs == Sort(NotNa(col))
        n == Len(xs)
        h == qn * (n - 1)
        lo == h \div qd
        fr == h % qd
    IN IF n = 0 THEN NaNR
       ELSE IF fr = 0 THEN Rat(xs[lo + 1] * qd, qd)
       ELSE Rat(xs[lo + 1] * qd + fr * (xs[lo + 2] - xs[lo + 1]), qd)

(***************************************************************************)
(* bin_target_for_iv (and its nested copy in show_iv_analysis).            *)
(***************************************************************************)
\* st.session_state of a new session, and of a call outside a session: no key
NoSession == <<>>

Pending == [status |-> "pending", value |-> <<>>, error |-> ""]
Returned(v) == [status |-> "returned", value |-> v, error |-> ""]
Raised(e) == [status |-> "raised", value |-> <<>>, error |-> e]

\* q = 0.5, the default of the q parameter
Half == <<1, 2>>

\* (s >= thr).astype(int) with > in place of >=.
LabelsGeStrict(s, thr) == [i \in 1..Len(s) |-> IF GtThr(s[i], thr) THEN 1 ELSE 0]

\* The labels of the non-missing cells only (s.dropna() >= thr): shorter than s when
\* a cell is missing.
LabelsGeDropNa(s, thr) == [i \in 1..Len(NotNa(s)) |-> IF GeThr(NotNa(s)[i], thr) THEN 1 ELSE 0]

\* (s >= thr).astype(int): the comparison is False on a missing cell, and False
\* becomes 0.
LabelsGe(s, thr) == [i \in 1..Len(s) |-> IF GeThr(s[i], thr) THEN 1 ELSE 0]

\* bin_target_for_iv without the cutoff and method checks.
bin_target_unchecked(s, method, cutoff, q) ==
    IF method = "median" THEN Returned(LabelsGe(s, Median(s)))
    ELSE IF method = "quantile" /\ q[1] >= 0 /\ q[1] <= q[2]
        THEN Returned(LabelsGe(s, Quantile(s, q[1], q[2])))
    ELSE IF cutoff = None THEN Returned(LabelsGe(s, Median(s)))
    ELSE Returned(LabelsGe(s, Rat(cutoff[1], 1)))

bin_target_for_iv(s, method, cutoff, q) ==
    IF method = "median" THEN Returned(LabelsGe(s, Median(s)))
    ELSE IF method = "cutoff" THEN
        IF cutoff = None THEN Raised("ValueError")
        ELSE Returned(LabelsGe(s, Rat(cutoff[1], 1)))
    ELSE IF method = "quantile" THEN
        \* Series.quantile validates 0 <= q <= 1 before it reads the data
        IF q[1] < 0 \/ q[1] > q[2] THEN Raised("ValueError")
        ELSE Returned(LabelsGe(s, Quantile(s, q[1], q[2])))
    ELSE Raised("ValueError")

(***************************************************************************)
(* Numbers that carry the smoothing constant 1e-10 of compute_iv. A        *)
(* polynomial c0 + c1*eps + c2*eps^2 + ... in eps = 1e-10 with integer     *)
(* coefficients is the tuple <<c0, c1, c2, ...>>. While every coefficient  *)
(* is below 10^9 in magnitude (row counts are), the terms after the first  *)
(* non-zero one sum to less than it, so the sign of the polynomial is the  *)
(* sign of its first non-zero coefficient. A quotient of two polynomials   *)
(* is [num, den] with den > 0. Arithmetic is exact (no rounding).          *)
(***************************************************************************)
PolyCoef(p, i) == IF i <= Len(p) THEN p[i] ELSE 0
PolyAdd(p, r) ==
    [i \in 1..(IF Len(p) >= Len(r) THEN Len(p) ELSE Len(r)) |-> PolyCoef(p, i) + PolyCoef(r, i)]
PolyNeg(p) == [i \in 1..Len(p) |-> 0 - p[i]]
PolySub(p, r) == PolyAdd(p, PolyNeg(r))
RECURSIVE ConvSum(_, _, _, _)
ConvSum(p, r, k, i) ==
    IF i > Len(p) THEN 0
    ELSE (IF k - i + 1 >= 1 /\ k - i + 1 <= Len(r) THEN p[i] * r[k - i + 1] ELSE 0)
         + ConvSum(p, r, k, i + 1)
PolyMul(p, r) == [k \in 1..(Len(p) + Len(r) - 1) |-> ConvSum(p, r, k, 1)]
RECURSIVE PolySign(_)
PolySign(p) ==
    IF p = <<>> THEN 0
    ELSE IF Head(p) > 0 THEN 1
    ELSE IF Head(p) < 0 THEN 0 - 1
    ELSE PolySign(Tail(p))

Quot(n, d) == [num |-> n, den |-> d]
QuotSub(a, b) == Quot(PolySub(PolyMul(a.num, b.den), PolyMul(b.num, a.den)), PolyMul(a.den, b.den))
QuotDiv(a, b) == Quot(PolyMul(a.num, b.den), PolyMul(a.den, b.num))
QuotSign(a) == PolySign(a.num)
\* x + 1e-10
PlusEps(a) == Quot(PolyAdd(a.num, PolyMul(<<0, 1>>, a.den)), a.den)
\* count / (total + 1e-10)
OverTotalEps(count, total) == Quot(<<count>>, <<total, 1>>)

\* np.log(x) of a quotient x > 0 is kept as its argument: [ln |-> x]. Its sign is the
\* sign of x - 1, that is of num - den.
Ln(x) == [ln |-> x]
LnSign(w) == PolySign(PolySub(w.ln.num, w.ln.den))
\* d * w for a quotient d and a logarithm w, kept as the pair of its factors
Times(d, w) == [factor |-> d, log |-> w]
TimesSign(t) == QuotSign(t.factor) * LnSign(t.log)

(***************************************************************************)
(* pd.qcut(x.rank(method="first"), q=k, duplicates="drop")                 *)
(***************************************************************************)
\* Series.rank(method="min"): equal values share the lowest of their ranks.
RankMin(col) ==
    [i \in 1..Len(col) |->
        IF col[i] = NaN THEN NaN
        ELSE 1 + Cardinality({j \in 1..Len(col) : col[j] # NaN /\ col[j] < col[i]})]

\* Series.rank(method="first", ascending=False): the highest value ranks first
RankDescending(col) ==
    [i \in 1..Len(col) |->
        IF col[i] = NaN THEN NaN
        ELSE 1 + Cardinality({j \in 1..Len(col) :
                    /\ col[j] # NaN
                    /\ (col[j] > col[i] \/ (col[j] = col[i] /\ j < i))})]

\* Series.rank(method="first"): the rank of a non-missing cell among the non-missing
\* cells, equal values ranked in row order; NaN for a missing cell.
RankFirst(col) ==
    [i \in 1..Len(col) |->
        IF col[i] = NaN THEN NaN
        ELSE 1 + Cardinality({j \in 1..Len(col) :
                    /\ col[j] # NaN
                    /\ (col[j] < col[i] \/ (col[j] = col[i] /\ j < i))})]

\* The k+1 quantile edges of the ranks 1..n at np.linspace(0, 1, k+1), each times k:
\* edge i is 1 + (n-1)*i/k by linear interpolation.
QcutEdges(n, k) == [i \in 1..(k + 1) |-> k + (n - 1) * (i - 1)]

\* duplicates="drop": algos.unique of the (ascending) edges; two edges (one bin
\* asked for) are kept as they are.
RECURSIVE Unique(_)
Unique(es) ==
    IF Len(es) <= 1 THEN es
    ELSE IF es[1] = es[2] THEN Unique(Tail(es))
    ELSE <<es[1]>> \o Unique(Tail(es))
DropDuplicates(es) == IF Len(es) = 2 THEN es ELSE Unique(es)

\* _bins_to_cuts without include_lowest: the lowest rank, equal to the first edge,
\* falls in no interval.
BinOfRankNoLowest(r, edges, k) ==
    LET ids == Cardinality({j \in 1..Len(edges) : edges[j] < r * k})
    IN IF ids = 0 \/ ids = Len(edges) THEN NaN ELSE ids

\* _bins_to_cuts(right=True, include_lowest=True): the 1-based bin of rank r among
\* the edges (scaled by k), NaN when r falls in no interval.
BinOfRank(r, edges, k) ==
    LET ids == IF r * k = edges[1] THEN 1
               ELSE Cardinality({j \in 1..Len(edges) : edges[j] < r * k})
    IN IF ids = 0 \/ ids = Len(edges) THEN NaN ELSE ids

\* The bin code (1..ncat, NaN for a row without a bin) of every row and the number
\* of categories. Called with k >= 0 and at least one non-missing cell.
QcutRank(col, k) ==
    LET ranks == RankFirst(col)
        n == Len(NotNa(col))
        edges == DropDuplicates(QcutEdges(n, k))
    IN [codes |-> [i \in 1..Len(col) |->
                      IF ranks[i] = NaN THEN NaN ELSE BinOfRank(ranks[i], edges, k)],
        ncat |-> Len(edges) - 1]

\* Series.nunique() of the bin column
NUnique(codes) == Cardinality({codes[i] : i \in 1..Len(codes)} \ {NaN})

\* The categories a groupby on the bin column reports, ascending: the observed ones
\* (observed=True) or all of them (observed=False).
GroupKeys(q, observed) ==
    LET RECURSIVE Keys(_)
        Keys(b) ==
            IF b > q.ncat THEN <<>>
            ELSE (IF ~observed \/ \E i \in 1..Len(q.codes) : q.codes[i] = b
                    THEN <<b>> ELSE <<>>) \o Keys(b + 1)
    IN Keys(1)

(***************************************************************************)
(* compute_iv                                                              *)
(***************************************************************************)
NoneNone == [report |-> None, iv |-> None]

\* df[[feature, target]].dropna(): the rows that have both cells, in row order
DropNaRows(d, feature, target) ==
    LET RECURSIVE Keep(_)
        Keep(i) ==
            IF i > Len(d[feature]) THEN <<>>
            ELSE (IF d[feature][i] # NaN /\ d[target][i] # NaN THEN <<i>> ELSE <<>>)
                 \o Keep(i + 1)
    IN Keep(1)

\* woe with the ratio the other way round: ln((dist_bad + eps) / (dist_good + eps))
WoeInverted(dist_good, dist_bad) == Ln(QuotDiv(PlusEps(dist_bad), PlusEps(dist_good)))

\* np.log((dist_good + 1e-10) / (dist_bad + 1e-10))
Woe(dist_good, dist_bad) == Ln(QuotDiv(PlusEps(dist_good), PlusEps(dist_bad)))

\* dist_bad without the smoothing of its denominator: bad / total_bad
DistBadUnsmoothed(bad, total_bad) == Quot(<<bad>>, <<total_bad>>)

\* bin_stats["bad"] / (total_bad + 1e-10)
DistBad(bad, total_bad) == OverTotalEps(bad, total_bad)

\* bin_stats["good"] / (total_good + 1e-10)
DistGood(good, total_good) == OverTotalEps(good, total_good)

\* The bin_stats table with bad = count, the goods not taken off
BinStatsBadIsCount(lab, q, observed) ==
    LET keys == GroupKeys(q, observed)
        members(b) == {i \in 1..Len(lab) : q.codes[i] = b}
        count(b) == Cardinality(members(b))
        good(b) == Cardinality({i \in members(b) : lab[i] = 1})
        total_good == Cardinality({i \in 1..Len(lab) : q.codes[i] # NaN /\ lab[i] = 1})
        total_bad == Cardinality({i \in 1..Len(lab) : q.codes[i] # NaN})
        row(b) ==
            LET dg == DistGood(good(b), total_good)
                db == DistBad(count(b), total_bad)
                w == Woe(dg, db)
            IN [bin |-> b, count |-> count(b), good |-> good(b),
                bad |-> count(b),
                dist_good |-> dg, dist_bad |-> db, woe |-> w,
                iv_bin |-> Times(QuotSub(dg, db), w)]
    IN [total_good |-> total_good, total_bad |-> total_bad,
        rows |-> [j \in 1..Len(keys) |-> row(keys[j])]]

\* The bin_stats table: one row per group key with count, good = sum of the labels,
\* bad = count - good, then the dist_good, dist_bad, woe and iv_bin columns.
BinStats(lab, q, observed) ==
    LET keys == GroupKeys(q, observed)
        members(b) == {i \in 1..Len(lab) : q.codes[i] = b}
        count(b) == Cardinality(members(b))
        good(b) == Cardinality({i \in members(b) : lab[i] = 1})
        total_good == Cardinality({i \in 1..Len(lab) : q.codes[i] # NaN /\ lab[i] = 1})
        total_bad == Cardinality({i \in 1..Len(lab) : q.codes[i] # NaN /\ lab[i] = 0})
        row(b) ==
            LET dg == DistGood(good(b), total_good)
                db == DistBad(count(b) - good(b), total_bad)
                w == Woe(dg, db)
            IN [bin |-> b, count |-> count(b), good |-> good(b),
                bad |-> count(b) - good(b),
                dist_good |-> dg, dist_bad |-> db, woe |-> w,
                iv_bin |-> Times(QuotSub(dg, db), w)]
    IN [total_good |-> total_good, total_bad |-> total_bad,
        rows |-> [j \in 1..Len(keys) |-> row(keys[j])]]

\* compute_iv without the check of the class totals
compute_iv_no_total_check(d, feature, target, bins, observed) ==
    LET rows == DropNaRows(d, feature, target)
        feat == [j \in 1..Len(rows) |-> d[feature][rows[j]]]
        lab == [j \in 1..Len(rows) |-> d[target][rows[j]]]
    IN IF rows = <<>> THEN NoneNone
       ELSE IF \E j \in 1..Len(lab) : lab[j] \notin {0, 1} THEN NoneNone
       ELSE IF bins < 0 THEN NoneNone
       ELSE LET q == QcutRank(feat, bins)
                stats == BinStats(lab, q, observed)
            IN IF NUnique(q.codes) < 2 THEN NoneNone
               ELSE [report |-> Some(stats.rows),
                     iv |-> Some([j \in 1..Len(stats.rows) |-> stats.rows[j].iv_bin])]

\* compute_iv without the check that the labels are 0 or 1
compute_iv_no_binary_check(d, feature, target, bins, observed) ==
    LET rows == DropNaRows(d, feature, target)
        feat == [j \in 1..Len(rows) |-> d[feature][rows[j]]]
        lab == [j \in 1..Len(rows) |-> d[target][rows[j]]]
    IN IF rows = <<>> THEN NoneNone
       ELSE IF bins < 0 THEN NoneNone
       ELSE LET q == QcutRank(feat, bins)
                stats == BinStats(lab, q, observed)
            IN IF NUnique(q.codes) < 2 THEN NoneNone
               ELSE IF stats.total_good = 0 \/ stats.total_bad = 0 THEN NoneNone
               ELSE [report |-> Some(stats.rows),
                     iv |-> Some([j \in 1..Len(stats.rows) |-> stats.rows[j].iv_bin])]

(***************************************************************************)
(* What a call leaves in the caller's dataset. Each function writes its    *)
(* derived columns and imputed values to a frame of its own (df.copy(), or *)
(* df[[feature, target]].dropna().copy()); written is the caller's frame   *)
(* as it would be had these writes been made on it.                        *)
(***************************************************************************)
\* No copy: the writes land in the caller's frame.
Aliased(d, written) == written

\* The writes land in the copy: the caller's frame is as before.
Copied(d, written) == d

\* f"{feat}_bin"
BinCol(feat) == feat \o "_bin"

\* d with column c set (added, or overwritten) to col
WithColumn(d, c, col) == [k \in DOMAIN d \cup {c} |-> IF k = c THEN col ELSE d[k]]

\* compute_iv(df, feature, target, bins): (report, IV) or (None, None). IV, the sum
\* of the iv_bin column, is kept as the tuple of its terms. Whatever raises inside
\* (np.linspace with a negative count) is caught and gives (None, None).
compute_iv(d, feature, target, bins, observed) ==
    LET rows == DropNaRows(d, feature, target)
        feat == [j \in 1..Len(rows) |-> d[feature][rows[j]]]
        lab == [j \in 1..Len(rows) |-> d[target][rows[j]]]
    IN IF rows = <<>> THEN NoneNone
       ELSE IF \E j \in 1..Len(lab) : lab[j] \notin {0, 1} THEN NoneNone
       ELSE IF bins < 0 THEN NoneNone
       ELSE LET q == QcutRank(feat, bins)
                stats == BinStats(lab, q, observed)
            IN IF NUnique(q.codes) < 2 THEN NoneNone
               ELSE IF stats.total_good = 0 \/ stats.total_bad = 0 THEN NoneNone
               ELSE [report |-> Some(stats.rows),
                     iv |-> Some([j \in 1..Len(stats.rows) |-> stats.rows[j].iv_bin])]

\* The one write of compute_iv: tmp[bin_col], the bin of every row tmp keeps
compute_iv_writes(d, feature, target, bins) ==
    LET rows == DropNaRows(d, feature, target)
        kept == [i \in 1..Len(d[feature]) |->
                    IF \E j \in 1..Len(rows) : rows[j] = i THEN d[feature][i] ELSE NaN]
        lab == [j \in 1..Len(rows) |-> d[target][rows[j]]]
    IN IF rows = <<>> THEN d
       ELSE IF \E j \in 1..Len(lab) : lab[j] \notin {0, 1} THEN d
       ELSE IF bins < 0 THEN d
       ELSE WithColumn(d, BinCol(feature), QcutRank(kept, bins).codes)

\* a < b for rationals <<num, den>>, den > 0
LtRat(a, b) == a[1] * b[2] < b[1] * a[2]

\* categorize_iv with <= in place of <: a boundary value falls in the lower bucket.
categorize_iv_le(iv_value) ==
    IF ~LtRat(<<2, 100>>, iv_value) THEN "Not useful"
    ELSE IF ~LtRat(<<1, 10>>, iv_value) THEN "Weak"
    ELSE IF ~LtRat(<<3, 10>>, iv_value) THEN "Medium"
    ELSE IF ~LtRat(<<5, 10>>, iv_value) THEN "Strong"
    ELSE "Suspicious / Too good"

\* categorize_iv(iv_value), iv_value a rational <<num, den>>
categorize_iv(iv_value) ==
    IF LtRat(iv_value, <<2, 100>>) THEN "Not useful"
    ELSE IF LtRat(iv_value, <<1, 10>>) THEN "Weak"
    ELSE IF LtRat(iv_value, <<3, 10>>) THEN "Medium"
    ELSE IF LtRat(iv_value, <<5, 10>>) THEN "Strong"
    ELSE "Suspicious / Too good"

(***************************************************************************)
(* SimpleImputer(strategy).fit_transform on one column.                    *)
(* The statistic is a rational num/den; the imputed column is kept as      *)
(* integers by multiplying every cell by den (scale), which keeps the      *)
(* order and the equalities of its cells.                                  *)
(***************************************************************************)
Strategies == {"mean", "median", "most_frequent"}

\* The smallest of the most frequent values (scipy/sklearn take the smallest on a tie)
MostFrequent(col) ==
    LET xs == NotNa(col)
        vals == {xs[i] : i \in 1..Len(xs)}
        freq(v) == Cardinality({i \in 1..Len(xs) : xs[i] = v})
    IN CHOOSE v \in vals :
          \A w \in vals : freq(w) < freq(v) \/ (freq(w) = freq(v) /\ v <= w)

\* The fill value of a column that has at least one value
Statistic(col, strategy) ==
    IF strategy = "mean" THEN Rat(SumSeq(NotNa(col)), Len(NotNa(col)))
    ELSE IF strategy = "median" THEN Median(col)
    ELSE Rat(MostFrequent(col), 1)

AllNa(col) == \A i \in 1..Len(col) : col[i] = NaN
AnyNa(col) == \E i \in 1..Len(col) : col[i] = NaN

\* The column with its missing cells filled, every cell times the statistic's den
Imputed(col, strategy) ==
    LET st == Statistic(col, strategy)
    IN [i \in 1..Len(col) |-> IF col[i] = NaN THEN st[1] ELSE col[i] * st[2]]

(***************************************************************************)
(* build_lift_reports                                                      *)
(***************************************************************************)
\* The order of the columns of the dataset (df.columns)
ColumnOrder == <<"y", "x", "z", "x_bin", "target_bin">>
\* df.select_dtypes(include="number").columns.tolist(): every column is numeric
NumCols(d) == SelectSeq(ColumnOrder, LAMBDA c : c \in DOMAIN d)
RowCount(d, target) == Len(d[target])

\* q of the qcut of build_lift_reports, and the fewest non-missing values a feature
\* needs
LiftBins == 10
LiftMinRows == 10

\* dropna(subset=[target]): the row numbers that have a target
TargetRows(d, target) ==
    LET RECURSIVE Keep(_)
        Keep(i) ==
            IF i > Len(d[target]) THEN <<>>
            ELSE (IF d[target][i] # NaN THEN <<i>> ELSE <<>>) \o Keep(i + 1)
    IN Keep(1)
TakeRows(d, rows) == [c \in DOMAIN d |-> [j \in 1..Len(rows) |-> d[c][rows[j]]]]

\* pd.cut(target, [-inf, med, inf], labels=["bad", "good"]) == "good": the intervals
\* are (-inf, med] and (med, inf], closed on the right, so a target is good when it
\* is > med.
LiftGood(col) ==
    LET med == Median(col)
    IN [i \in 1..Len(col) |-> GtThr(col[i], med)]

Inf == <<1, 0>>

\* The quotient the other way round: overall / good_rate
FloatDivInverted(n, d) == IF n[1] = 0 THEN (IF d[1] = 0 THEN NaNR ELSE Inf)
                          ELSE Rat(d[1] * n[2], d[2] * n[1])

\* good_rate / overall in float arithmetic: nan for 0/0, inf for x/0 (no exception)
FloatDiv(n, d) == IF d[1] = 0 THEN (IF n[1] = 0 THEN NaNR ELSE Inf)
                  ELSE Rat(n[1] * d[2], n[2] * d[1])

\* The lift table with the size() column attached in the wrong (reversed) order
LiftTableCountsReversed(codes, ncat, good, overall) ==
    LET members(b) == {i \in 1..Len(codes) : codes[i] = b}
        goods(b) == Cardinality({i \in members(b) : good[i]})
    IN [b \in 1..ncat |->
          [bin |-> b,
           good_rate |-> Rat(goods(b), Cardinality(members(b))),
           lift |-> FloatDiv(Rat(goods(b), Cardinality(members(b))), overall),
           count |-> Cardinality(members(ncat + 1 - b))]]

\* The lift table of one feature from its bin codes: per bin (ascending) the good
\* rate, the lift and the row count.
LiftTable(codes, ncat, good, overall) ==
    LET members(b) == {i \in 1..Len(codes) : codes[i] = b}
        goods(b) == Cardinality({i \in members(b) : good[i]})
    IN [b \in 1..ncat |->
          [bin |-> b,
           good_rate |-> Rat(goods(b), Cardinality(members(b))),
           lift |-> FloatDiv(Rat(goods(b), Cardinality(members(b))), overall),
           count |-> Cardinality(members(b))]]

\* The loop skipping only a feature without any value
RECURSIVE LiftLoopNoSkip(_, _, _, _, _)
LiftLoopNoSkip(feats, dfc, good, overall, reports) ==
    IF feats = <<>> THEN reports
    ELSE LET feat == Head(feats)
         IN IF Len(NotNa(dfc[feat])) < 1
            THEN LiftLoopNoSkip(Tail(feats), dfc, good, overall, reports)
            ELSE LET q == QcutRank(dfc[feat], LiftBins)
                 IN LiftLoopNoSkip(Tail(feats), WithColumn(dfc, BinCol(feat), q.codes), good, overall,
                                   reports @@ (feat :> LiftTable(q.codes, q.ncat, good, overall)))

\* The loop over the numeric features other than the target, in column order: a
\* feature with fewer than 10 values is skipped; the others get their table. The
\* bins of a feature are written to df_clean[f"{feat}_bin"], a new column or one
\* the dataset came with; the rank of such a column of ordered categories is the
\* rank of its codes.
RECURSIVE LiftLoop(_, _, _, _, _)
LiftLoop(feats, dfc, good, overall, reports) ==
    IF feats = <<>> THEN reports
    ELSE LET feat == Head(feats)
         IN IF Len(NotNa(dfc[feat])) < LiftMinRows
            THEN LiftLoop(Tail(feats), dfc, good, overall, reports)
            ELSE LET q == QcutRank(dfc[feat], LiftBins)
                 IN LiftLoop(Tail(feats), WithColumn(dfc, BinCol(feat), q.codes), good, overall,
                             reports @@ (feat :> LiftTable(q.codes, q.ncat, good, overall)))

EmptyMapping == <<>>

\* The target column imputed, when asked and possible
ImputedTarget(d, target, impute_target, target_imp) ==
    IF impute_target /\ AnyNa(d[target]) /\ ~AllNa(d[target])
    THEN [d EXCEPT ![target] = Imputed(@, target_imp)] ELSE d

\* Every feature column with a missing cell imputed
ImputedFeatures(d, target, feat_imp) ==
    [c \in DOMAIN d |-> IF c # target /\ AnyNa(d[c]) THEN Imputed(d[c], feat_imp) ELSE d[c]]

\* The writes of build_lift_reports to df_clean before dropna makes a new frame of it:
\* the imputed target, then the imputed features (none when the imputer's output
\* does not fit and the assignment raises)
build_lift_writes(d, target, impute_target, target_imp, impute_feat, feat_imp) ==
    LET d1 == ImputedTarget(d, target, impute_target, target_imp)
        feat_fails == \E c \in DOMAIN d1 \ {target} : AnyNa(d1[c]) /\ AllNa(d1[c])
    IN IF impute_feat /\ ~feat_fails /\ ~(impute_target /\ AnyNa(d[target]) /\ AllNa(d[target]))
       THEN ImputedFeatures(d1, target, feat_imp) ELSE d1

\* strict_edges: whether the installed pandas rejects bin edges that hold a nan.
build_lift_reports(d, target, impute_target, target_imp, impute_feat, feat_imp, strict_edges) ==
    LET num_cols == NumCols(d)
        features == SelectSeq(num_cols, LAMBDA c : c # target)
        \* a SimpleImputer drops a column without any value: the assignment of its
        \* output to the column(s) then raises ValueError
        target_fails == impute_target /\ AnyNa(d[target]) /\ AllNa(d[target])
        d1 == ImputedTarget(d, target, impute_target, target_imp)
        feat_cols == SelectSeq(features, LAMBDA c : AnyNa(d1[c]))
        feat_fails == impute_feat /\ \E j \in 1..Len(feat_cols) : AllNa(d1[feat_cols[j]])
        d2 == IF impute_feat /\ ~feat_fails THEN ImputedFeatures(d1, target, feat_imp) ELSE d1
        dropped == TakeRows(d2, TargetRows(d2, target))
        n == RowCount(dropped, target)
        good == LiftGood(dropped[target])
        \* df_clean["target_bin"]: the ordered categories bad < good
        df_clean == WithColumn(dropped, "target_bin", [i \in 1..n |-> IF good[i] THEN 2 ELSE 1])
        overall == Rat(Cardinality({i \in 1..n : good[i]}), n)
    IN IF target_fails \/ feat_fails THEN Raised("ValueError")
       \* no row left: med is nan, and pd.cut either rejects the edges [-inf, nan, inf]
       \* or bins nothing; then no feature has 10 values
       ELSE IF n = 0 THEN (IF strict_edges THEN Raised("ValueError") ELSE Returned(EmptyMapping))
       ELSE Returned(LiftLoop(features, df_clean, good, overall, EmptyMapping))

(***************************************************************************)
(* The feature strength of show_lift_analysis, from the lift column of the *)
(* selected report. The lifts of a column are rationals over one common    *)
(* denominator D, lift_i = a_i / D.                                        *)
(***************************************************************************)
\* n^2 * (n - 1) * D^2 times the variance, for the divisor n - ddof in place of n - 1
ScaledSquares(xs) ==
    LET n == Len(xs)
        S == SumSeq([i \in 1..n |-> xs[i][1]])
    IN SumSeq([i \in 1..n |-> (n * xs[i][1] - S) * (n * xs[i][1] - S)])

\* The strength with numpy's std (ddof=0) in place of pandas' (ddof=1)
FeatureStrengthPopulation(lifts) ==
    LET xs == SelectSeq(lifts, LAMBDA v : v # NaNR)
        n == Len(xs)
        scale == n * n * n * xs[1][2] * xs[1][2]
    IN IF n < 1 THEN "Low"
       ELSE IF 100 * ScaledSquares(xs) > 9 * scale THEN "High"
       ELSE IF 400 * ScaledSquares(xs) > 9 * scale THEN "Medium"
       ELSE "Low"

\* lift_std = lift_df['lift'].std(): the sample standard deviation (ddof=1) of the
\* non-missing lifts, nan when there are fewer than two; a comparison with nan is
\* False. std > 0.3 is var > 9/100, std > 0.15 is var > 9/400.
FeatureStrength(lifts) ==
    LET xs == SelectSeq(lifts, LAMBDA v : v # NaNR)
        n == Len(xs)
        scale == n * n * (n - 1) * xs[1][2] * xs[1][2]
    IN IF n < 2 THEN "Low"
       ELSE IF 100 * ScaledSquares(xs) > 9 * scale THEN "High"
       ELSE IF 400 * ScaledSquares(xs) > 9 * scale
                /\ ~(100 * ScaledSquares(xs) > 9 * scale) THEN "Medium"
       ELSE "Low"

(***************************************************************************)
(* show_iv_analysis, from the copy of the dataset to the IV reports.       *)
(***************************************************************************)
IVTarget == "__iv_target__"
\* The fewest distinct values a feature needs to get a report
IVMinDistinct == 5

\* The function returns early after st.warning / st.error: no report is made.
Stopped(msg) == [status |-> "returned", value |-> EmptyMapping, error |-> msg]

\* The loop over the candidate features, in column order
RECURSIVE IVLoop(_, _, _, _, _)
IVLoop(feats, dfc, bins, observed, reports) ==
    IF feats = <<>> THEN reports
    ELSE LET feat == Head(feats)
             res == compute_iv(dfc, feat, IVTarget, bins, observed)
         IN IF NUnique(dfc[feat]) < IVMinDistinct
            THEN IVLoop(Tail(feats), dfc, bins, observed, reports)
            ELSE IF res.report = None
            THEN IVLoop(Tail(feats), dfc, bins, observed, reports)
            ELSE IVLoop(Tail(feats), dfc, bins, observed, reports @@ (feat :> res.report[1]))

\* The write of show_iv_analysis to df_clean before dropna makes a new frame of it
show_iv_writes(d, target, impute_target, target_imp) ==
    IF RowCount(d, target) = 0 THEN d ELSE ImputedTarget(d, target, impute_target, target_imp)

\* cutoff is a whole number; q is a rational <<num, den>>.
show_iv_analysis(d, target, impute_target, target_imp, method, q, cutoff, impute_feat, feat_imp, bins, observed) ==
    LET features == SelectSeq(NumCols(d), LAMBDA c : c # target)
        \* a SimpleImputer drops a column without any value: 0 cells for n rows
        target_fails == impute_target /\ AnyNa(d[target]) /\ AllNa(d[target])
        imputes == impute_target /\ AnyNa(d[target]) /\ ~AllNa(d[target])
        \* the imputed target is kept as integers, times scale
        scale == IF imputes THEN Statistic(d[target], target_imp)[2] ELSE 1
        d1 == ImputedTarget(d, target, impute_target, target_imp)
        d2 == TakeRows(d1, TargetRows(d1, target))
        lab == IF method = "median" THEN bin_target_for_iv(d2[target], "median", None, Half)
               ELSE IF method = "quantile" THEN bin_target_for_iv(d2[target], "quantile", None, q)
               ELSE bin_target_for_iv(d2[target], "cutoff", Some(cutoff * scale), Half)
        d3 == d2 @@ (IVTarget :> lab.value)
        feat_cols == SelectSeq(features, LAMBDA c : AnyNa(d3[c]))
        all_nan_cols == SelectSeq(feat_cols, LAMBDA c : AllNa(d3[c]))
        rest == SelectSeq(feat_cols, LAMBDA c : ~AllNa(d3[c]))
        \* X_imp is read without having been assigned
        unbound == impute_feat /\ feat_cols # <<>> /\ rest = <<>>
        d4 == IF impute_feat
              THEN [c \in DOMAIN d3 |->
                      IF c \in {all_nan_cols[j] : j \in 1..Len(all_nan_cols)}
                      THEN [i \in 1..Len(d3[c]) |-> 0]
                      ELSE IF c \in {rest[j] : j \in 1..Len(rest)}
                      THEN Imputed(d3[c], feat_imp)
                      ELSE d3[c]]
              ELSE d3
        iv_reports == IVLoop(features, d4, bins, observed, EmptyMapping)
    IN IF RowCount(d, target) = 0 THEN Stopped("Load data first.")
       ELSE IF target_fails THEN Raised("ValueError")
       ELSE IF lab.status = "raised" THEN Stopped("Failed to bin target for IV")
       ELSE IF unbound THEN Raised("UnboundLocalError")
       ELSE IF iv_reports = EmptyMapping THEN Stopped("No valid features for IV analysis.")
       ELSE Returned(iv_reports)

(***************************************************************************)
(* Inputs of bin_target_for_iv: every column of at most MaxSeriesLen cells *)
(* over NaN and 1..MaxTargetVal, with the method, cutoff and q arguments.  *)
(***************************************************************************)
MaxSeriesLen == 4
MaxTargetVal == 3
QDen == 4

Cells(maxv) == {NaN} \cup (1..maxv)
Columns(maxlen, maxv) == UNION {[1..n -> Cells(maxv)] : n \in 0..maxlen}

\* "mean" stands for any method value other than the three the function knows
Methods == {"median", "quantile", "cutoff", "mean"}
Cutoffs == {None} \cup {Some(c) : c \in 0..(MaxTargetVal + 1)}
Quantiles == {<<k, QDen>> : k \in (0 - 1)..(QDen + 1)}

\* The parameters a method does not read keep their defaults (cutoff=None, q=0.5).
BinTargetArgs ==
    {[fn |-> "bin_target_for_iv", method |-> m, cutoff |-> None, q |-> Half] : m \in Methods}
    \cup {[fn |-> "bin_target_for_iv", method |-> "cutoff", cutoff |-> c, q |-> Half] : c \in Cutoffs}
    \cup {[fn |-> "bin_target_for_iv", method |-> "quantile", cutoff |-> None, q |-> qq] : qq \in Quantiles}

InitBinTarget ==
    /\ df \in {[s |-> c] : c \in Columns(MaxSeriesLen, MaxTargetVal)}
    /\ args \in BinTargetArgs
    /\ ret = Pending
    /\ prev = Pending
    /\ session_state = NoSession

\* One call bin_target_for_iv(s, method, cutoff, q). The function works on s.copy()
\* and builds a new series, so the caller's column is left as it was; the caller may
\* call again with the same input.
CallBinTarget ==
    /\ args.fn = "bin_target_for_iv"
    /\ ret' = bin_target_for_iv(df.s, args.method, args.cutoff, args.q)
    /\ prev' = ret
    /\ UNCHANGED session_state
    /\ UNCHANGED <<df, args>>

NextBinTarget == CallBinTarget

SpecBinTarget == InitBinTarget /\ [][NextBinTarget]_vars

(***************************************************************************)
(* Claims about bin_target_for_iv.                                         *)
(***************************************************************************)
CountIf(col, P(_)) == Cardinality({i \in 1..Len(col) : P(col[i])})

\* The k-th smallest of the non-missing values of col, by counting.
OrderStat(col, k) ==
    CHOOSE u \in {col[i] : i \in 1..Len(col)} \ {NaN} :
        /\ CountIf(col, LAMBDA x : x # NaN /\ x < u) < k
        /\ CountIf(col, LAMBDA x : x # NaN /\ x <= u) >= k

\* v is a value of col that is >= the median of col's non-missing values
AtLeastMedian(col, v) ==
    LET n == CountIf(col, LAMBDA x : x # NaN)
    IN /\ v # NaN
       /\ n > 0
       /\ 2 * v >= OrderStat(col, (n + 1) \div 2) + OrderStat(col, n \div 2 + 1)

\* C3: with method 'median' the label of a row is 1 exactly when its value is >= the
\* median of the non-missing values of the column and 0 otherwise, so the number of
\* rows labelled 1 is the number of values >= the median; a second call on the same
\* input returns the same labels.
C3_MedianLabels ==
    (args.fn = "bin_target_for_iv" /\ args.method = "median" /\ ret.status # "pending") =>
        /\ ret.status = "returned"
        /\ Len(ret.value) = Len(df.s)
        /\ \A i \in 1..Len(df.s) :
              ret.value[i] = IF AtLeastMedian(df.s, df.s[i]) THEN 1 ELSE 0
        /\ CountIf(ret.value, LAMBDA l : l = 1)
              = CountIf(df.s, LAMBDA x : AtLeastMedian(df.s, x))
        /\ (prev.status # "pending" => prev = ret)

\* A second median call on a column with a missing cell, a value below the median
\* and two values equal to it.
C3_Witness ==
    /\ args.fn = "bin_target_for_iv" /\ args.method = "median"
    /\ df.s = <<2, NaN, 1, 2>>
    /\ ret.status = "returned" /\ ret.value = <<1, 0, 0, 1>>
    /\ prev = ret

\* C10: method 'cutoff' without a cutoff, and any method other than 'median',
\* 'quantile', 'cutoff', fail with an error and return no labels; method 'cutoff'
\* with a cutoff labels a row 1 exactly when its value is >= the cutoff.
C10_CutoffAndUnknown ==
    (args.fn = "bin_target_for_iv" /\ ret.status # "pending") =>
        /\ (args.method = "cutoff" /\ args.cutoff = None) =>
              (ret.status = "raised" /\ ret.value = <<>>)
        /\ (args.method \notin {"median", "quantile", "cutoff"}) =>
              (ret.status = "raised" /\ ret.value = <<>>)
        /\ (args.method = "cutoff" /\ args.cutoff # None) =>
              /\ ret.status = "returned"
              /\ Len(ret.value) = Len(df.s)
              /\ \A i \in 1..Len(df.s) :
                    ret.value[i] =
                        IF df.s[i] # NaN /\ df.s[i] >= args.cutoff[1] THEN 1 ELSE 0

\* The call with method 'cutoff' and no cutoff has raised.
C10_Witness ==
    /\ args.fn = "bin_target_for_iv" /\ args.method = "cutoff" /\ args.cutoff = None
    /\ Len(df.s) > 0
    /\ ret.status = "raised"

BinTargetCalled == args.fn = "bin_target_for_iv" /\ ret.status # "pending"

\* C11: with method 'quantile', q <= 0 or q >= 1 (0.0 and 1.0 included) fails with an
\* error and produces no labels; for 0 < q < 1 the label of a row is 1 exactly when
\* its value is >= the q-quantile of the column.
C11_QuantileStrictlyInside ==
    (BinTargetCalled /\ args.method = "quantile") =>
        /\ (args.q[1] <= 0 \/ args.q[1] >= args.q[2]) =>
              (ret.status = "raised" /\ ret.value = <<>>)
        /\ (args.q[1] > 0 /\ args.q[1] < args.q[2]) =>
              /\ ret.status = "returned"
              /\ \A i \in 1..Len(df.s) :
                    ret.value[i] = IF GeThr(df.s[i], Quantile(df.s, args.q[1], args.q[2]))
                                   THEN 1 ELSE 0

\* C13: a missing entry of the column stays missing at the same position of the
\* returned labels, whatever the method.
C13_MissingStaysMissing ==
    (BinTargetCalled /\ ret.status = "returned") =>
        /\ Len(ret.value) = Len(df.s)
        /\ \A i \in 1..Len(df.s) : df.s[i] = NaN => ret.value[i] = NaN

\* The threshold a call with valid parameters compares with
ThresholdOf(s, a) ==
    IF a.method = "median" THEN Median(s)
    ELSE IF a.method = "cutoff" THEN Rat(a.cutoff[1], 1)
    ELSE Quantile(s, a.q[1], a.q[2])
ValidBinTargetArgs(a) ==
    \/ a.method = "median"
    \/ a.method = "cutoff" /\ a.cutoff # None
    \/ a.method = "quantile" /\ a.q[1] >= 0 /\ a.q[1] <= a.q[2]

\* C14: bin_target_for_iv leaves its input column as it was, and for every method
\* and every input it accepts it returns a sequence of the length of the input whose
\* i-th entry is the label (0 or 1) of the i-th entry of the input.
C14_AlignedLabelsInputUnchanged ==
    /\ [](BinTargetCalled =>
            /\ ValidBinTargetArgs(args) <=> ret.status = "returned"
            /\ ret.status = "returned" =>
                  /\ Len(ret.value) = Len(df.s)
                  /\ \A i \in 1..Len(df.s) :
                        ret.value[i] = IF GeThr(df.s[i], ThresholdOf(df.s, args)) THEN 1 ELSE 0)
    /\ [][df' = df]_vars

\* A second call with method 'quantile' on a column of 4 cells, one missing, has
\* returned both labels.
C14_Witness ==
    /\ BinTargetCalled /\ args.method = "quantile" /\ args.q = Half
    /\ df.s = <<3, NaN, 1, 2>>
    /\ ret.status = "returned" /\ ret.value = <<1, 0, 0, 1>>
    /\ prev = ret

(***************************************************************************)
(* Inputs of compute_iv: a feature column "x" and a label column           *)
(* "__iv_target__" of n <= MaxRowsIV rows, each a short pattern of cells   *)
(* repeated down the rows, and the bins argument.                          *)
(***************************************************************************)
MaxRowsIV == 5
MaxFeatVal == 3
MaxBins == 5

\* pattern pat repeated cyclically to n rows
Cyc(pat, n) == [i \in 1..n |-> pat[((i - 1) % Len(pat)) + 1]]
Patterns(periods, cells) == UNION {[1..p -> cells] : p \in periods}
\* 1..p repeated up (or p..1 down) the m rows
Ramp(p, m, up) == [i \in 1..m |-> IF up THEN ((i - 1) % p) + 1 ELSE p - ((i - 1) % p)]
\* a column with the cells of the rows in mask missing: some of the first MaxNaNRows
\* rows, or every row
MaxNaNRows == 1
Masked(col, mask) == [i \in 1..Len(col) |-> IF i \in mask THEN NaN ELSE col[i]]
Masks(n) == (SUBSET (1..MaxNaNRows)) \cup {1..n}
MaskedColumns(pats, n) == {Masked(Cyc(pt, n), mk) : pt \in pats, mk \in Masks(n)}

FeaturePatterns == Patterns({1, 2, 3}, Cells(MaxFeatVal))
\* binary labels, labels with a missing entry, and a label column that is not binary
LabelPatterns ==
    Patterns({1, 2}, {0, 1}) \cup {<<NaN, 1>>, <<0, NaN>>, <<0, 1, NaN>>, <<2, 0>>, <<2, 0, 1>>}

IVFrames ==
    {("x" :> Cyc(fp, n)) @@ ("__iv_target__" :> Cyc(lp, n)) :
        fp \in FeaturePatterns, lp \in LabelPatterns, n \in 0..MaxRowsIV}

\* groupby's default for observed depends on the pandas release (False before 3.0,
\* True from 3.0): either may be the one installed.
ObservedDefaults == BOOLEAN

InitIV ==
    /\ df \in IVFrames
    /\ args \in {[fn |-> "compute_iv", feature |-> "x", target |-> "__iv_target__",
                  bins |-> b, observed |-> o, relabelled |-> FALSE] :
                    b \in (0 - 1)..MaxBins, o \in ObservedDefaults}
    /\ ret = Pending
    /\ prev = Pending
    /\ session_state = NoSession

\* compute_iv(df, feature, target, bins): works on a copy of the two columns
CallComputeIV ==
    /\ args.fn = "compute_iv"
    /\ ret.status = "pending"
    /\ ret' = Returned(compute_iv(df, args.feature, args.target, args.bins, args.observed))
    /\ df' = Copied(df, compute_iv_writes(df, args.feature, args.target, args.bins))
    /\ UNCHANGED <<args, prev, session_state>>

\* The caller swaps the two classes of the label column (0 <-> 1) and calls
\* compute_iv again; prev keeps what the call before the swap returned.
Relabel(col) == [i \in 1..Len(col) |-> IF col[i] \in {0, 1} THEN 1 - col[i] ELSE col[i]]
CallComputeIVRelabelled ==
    /\ args.fn = "compute_iv"
    /\ ret.status = "returned"
    /\ ~args.relabelled
    /\ LET relabelled == [df EXCEPT ![args.target] = Relabel(@)]
       IN df' = Copied(relabelled,
                       compute_iv_writes(relabelled, args.feature, args.target, args.bins))
    /\ args' = [args EXCEPT !.relabelled = TRUE]
    /\ prev' = ret
    /\ UNCHANGED session_state
    /\ ret' = Returned(compute_iv(df', args.feature, args.target, args.bins, args.observed))

(***************************************************************************)
(* Inputs of show_iv_analysis: a target column "y" and the features "x"    *)
(* and "z" over n rows, IVMinDistinct <= n <= IVMinDistinct + ExtraRowsIV, *)
(* with the values of the widgets.                                         *)
(***************************************************************************)
ExtraRowsIV == 1

ShowIVFrames ==
    UNION {
        {("y" :> yc) @@ ("x" :> xc) @@ ("z" :> zc) :
            yc \in MaskedColumns(Patterns({1, 2}, 1..2), n),
            xc \in {Masked(Ramp(n, n, TRUE), mk) : mk \in {{}, {1}}},
            zc \in {Cyc(<<NaN>>, n), Cyc(<<2, 1>>, n)}} :
        n \in IVMinDistinct..(IVMinDistinct + ExtraRowsIV)}

\* A disabled widget holds its default: "median" for a strategy, 0.5 for the
\* quantile, 0.0 for the cutoff. The quantile input is held within [0, 1].
ShowIVBinning ==
    {[method |-> "median", q |-> Half, cutoff |-> 0]}
    \cup {[method |-> "quantile", q |-> qq, cutoff |-> 0] : qq \in {<<0, 1>>, Half, <<1, 1>>}}
    \cup {[method |-> "cutoff", q |-> Half, cutoff |-> c] : c \in {0, 2, 3}}
ShowIVArgs ==
    {[fn |-> "show_iv_analysis", target |-> "y",
      impute_target |-> it, target_imp |-> ts, binning |-> tb,
      impute_feat |-> if, feat_imp |-> fs, bins |-> b, observed |-> o] :
        it \in BOOLEAN, ts \in Strategies, tb \in ShowIVBinning,
        if \in BOOLEAN, fs \in Strategies, b \in {2, 3}, o \in ObservedDefaults}
ShowIVCalls == {a \in ShowIVArgs : /\ (~a.impute_target => a.target_imp = "median")
                                   /\ (~a.impute_feat => a.feat_imp = "median")}

InitShowIV ==
    /\ df \in ShowIVFrames
    /\ args \in ShowIVCalls
    /\ ret = Pending
    /\ prev = Pending
    /\ session_state = NoSession

\* One run of show_iv_analysis with the widgets as set: works on df.copy()
CallShowIV ==
    /\ args.fn = "show_iv_analysis"
    /\ ret.status = "pending"
    /\ ret' = show_iv_analysis(df, args.target, args.impute_target, args.target_imp,
                               args.binning.method, args.binning.q, args.binning.cutoff,
                               args.impute_feat, args.feat_imp, args.bins, args.observed)
    /\ df' = Copied(df, show_iv_writes(df, args.target, args.impute_target, args.target_imp))
    /\ UNCHANGED <<args, prev, session_state>>

NextIV == CallComputeIV \/ CallComputeIVRelabelled \/ CallShowIV

SpecIV == (InitIV \/ InitShowIV) /\ [][NextIV]_vars

\* The non-missing targets hold one constant value
ConstantTarget == Cardinality({df[args.target][i] : i \in 1..Len(df[args.target])} \ {NaN}) = 1

(***************************************************************************)
(* Claims about compute_iv.                                                *)
(***************************************************************************)
IVCalled == args.fn = "compute_iv" /\ ret.status = "returned"
HasReport(r) == r.status = "returned" /\ r.value.report # None
ReportOf(r) == r.value.report[1]
IVTermsOf(r) == r.value.iv[1]

\* The sign of a sum of terms when the terms decide it: 0 for all zero, 1 (-1) for
\* no negative (positive) term and one positive (negative) one, 2 for mixed signs.
SumSign(terms) ==
    LET pos == \E j \in 1..Len(terms) : TimesSign(terms[j]) > 0
        neg == \E j \in 1..Len(terms) : TimesSign(terms[j]) < 0
    IN IF pos /\ neg THEN 2 ELSE IF pos THEN 1 ELSE IF neg THEN 0 - 1 ELSE 0

\* C1: in every report compute_iv returns, every iv_bin is >= 0, the sign of
\* dist_good - dist_bad being the sign of woe, and so the IV scalar is >= 0.
C1_IVNonNegative ==
    (IVCalled /\ HasReport(ret)) =>
        /\ \A j \in 1..Len(ReportOf(ret)) :
              LET row == ReportOf(ret)[j]
              IN /\ QuotSign(QuotSub(row.dist_good, row.dist_bad)) = LnSign(row.woe)
                 /\ TimesSign(row.iv_bin) >= 0
        /\ SumSign(IVTermsOf(ret)) \in {0, 1}

\* A report with a bin where good outweighs bad, one where bad outweighs good, and
\* so a positive IV.
C1_Witness ==
    /\ IVCalled /\ HasReport(ret)
    /\ \E j \in 1..Len(ReportOf(ret)) : LnSign(ReportOf(ret)[j].woe) > 0
    /\ \E j \in 1..Len(ReportOf(ret)) : LnSign(ReportOf(ret)[j].woe) < 0
    /\ SumSign(IVTermsOf(ret)) = 1

\* The rows compute_iv keeps: those with both a feature and a label
KeptRows == {i \in 1..Len(df[args.feature]) :
                df[args.feature][i] # NaN /\ df[args.target][i] # NaN}
KeptLabels == {df[args.target][i] : i \in KeptRows}
DistinctFeatureValues == Cardinality({df[args.feature][i] : i \in KeptRows})
\* The bins that hold at least one row
RealizedBins(r) == Cardinality({j \in 1..Len(ReportOf(r)) : ReportOf(r)[j].count > 0})
Min(a, b) == IF a <= b THEN a ELSE b

ShowIVCalled == args.fn = "show_iv_analysis" /\ ret.status # "pending"
\* The rows show_iv_analysis keeps (a target, imputed or not), and the features it
\* imputes: it reads X_imp unassigned when every feature to impute is empty.
TargetKept(i) == df[args.target][i] # NaN \/ (args.impute_target /\ ~AllNa(df[args.target]))
NeedsImpute(c) == \E i \in 1..Len(df[c]) : TargetKept(i) /\ df[c][i] = NaN
EmptyFeature(c) == \A i \in 1..Len(df[c]) : TargetKept(i) => df[c][i] = NaN
ImputesOnlyEmptyFeatures ==
    /\ args.impute_feat
    /\ \E c \in DOMAIN df \ {args.target} : NeedsImpute(c)
    /\ \A c \in DOMAIN df \ {args.target} : NeedsImpute(c) => EmptyFeature(c)

C25_EmptyFeatureRunContinues ==
    (/\ ShowIVCalled /\ args.impute_feat
     /\ \E i \in 1..Len(df[args.target]) : TargetKept(i)
     /\ \E c \in DOMAIN df \ {args.target} : EmptyFeature(c)) =>
        ret.status = "returned"

\* Equality of quotients, of a logarithm with the negation of another, and of two
\* products factor * log (x * y = (-x) * (-y)).
QuotEq(a, b) == PolyMul(a.num, b.den) = PolyMul(b.num, a.den)
LnIsNeg(w, v) == QuotEq(w.ln, Quot(v.ln.den, v.ln.num))
TimesEq(t, u) ==
    \/ QuotEq(t.factor, u.factor) /\ QuotEq(t.log.ln, u.log.ln)
    \/ QuotEq(t.factor, Quot(PolyNeg(u.factor.num), u.factor.den)) /\ LnIsNeg(t.log, u.log)

\* C7: when compute_iv returned a report, the call on the same rows with the label
\* relabelled 0 <-> 1 returns a report with the same bins, every woe negated, every
\* iv_bin unchanged and the same IV.
C7_LabelFlipSymmetry ==
    (args.fn = "compute_iv" /\ args.relabelled /\ HasReport(prev)) =>
        /\ HasReport(ret)
        /\ Len(ReportOf(ret)) = Len(ReportOf(prev))
        /\ \A j \in 1..Len(ReportOf(prev)) :
              LET new == ReportOf(ret)[j]
                  old == ReportOf(prev)[j]
              IN /\ new.bin = old.bin /\ new.count = old.count
                 /\ new.good = old.bad /\ new.bad = old.good
                 /\ LnIsNeg(new.woe, old.woe)
                 /\ LnSign(new.woe) = 0 - LnSign(old.woe)
                 /\ TimesEq(new.iv_bin, old.iv_bin)
        /\ Len(IVTermsOf(ret)) = Len(IVTermsOf(prev))
        /\ \A j \in 1..Len(IVTermsOf(prev)) : TimesEq(IVTermsOf(ret)[j], IVTermsOf(prev)[j])

\* A relabelled call whose first report had a bin with positive woe and the classes
\* in unequal numbers.
C7_Witness ==
    /\ args.fn = "compute_iv" /\ args.relabelled
    /\ HasReport(prev) /\ HasReport(ret)
    /\ \E j \in 1..Len(ReportOf(prev)) :
          LnSign(ReportOf(prev)[j].woe) > 0 /\ LnSign(ReportOf(ret)[j].woe) < 0
    /\ Cardinality({i \in KeptRows : df[args.target][i] = 1})
          # Cardinality({i \in KeptRows : df[args.target][i] = 0})

\* C9 as stated: the realized bin count never exceeds the number of distinct feature
\* values (at most 3 bins for bins=5 on a feature with 3 distinct values).
C9_BinsAtMostDistinctValues ==
    (IVCalled /\ HasReport(ret)) => RealizedBins(ret) <= DistinctFeatureValues

\* C9 (amended): compute_iv never raises, and the realized bin count of a report is
\* min(bins, rows that have feature and label): never above the requested bins nor
\* above the number of such rows, whatever the number of distinct feature values.
C9_BinsAtMostRows ==
    (args.fn = "compute_iv" /\ ret.status # "pending") =>
        /\ ret.status = "returned"
        /\ HasReport(ret) =>
              /\ RealizedBins(ret) = Min(args.bins, Cardinality(KeptRows))
              /\ Cardinality({ReportOf(ret)[j].bin : j \in 1..Len(ReportOf(ret))})
                    = Len(ReportOf(ret))
              /\ Len(ReportOf(ret)) <= args.bins

\* bins=5 on a feature with 3 distinct values over 5 rows: 5 bins are realized.
C9_Witness ==
    /\ IVCalled /\ HasReport(ret)
    /\ args.bins = 5 /\ DistinctFeatureValues = 3
    /\ RealizedBins(ret) = 5

\* C12: compute_iv called with bins < 2 (here on rows that hold both classes) raises
\* an error; it does not return (None, None) as for a feature it skips.
C12_BinsBelowTwoRaises ==
    (args.fn = "compute_iv" /\ ret.status # "pending" /\ args.bins < 2
        /\ Cardinality(KeptRows) >= 2 /\ KeptLabels = {0, 1}) =>
        ret.status = "raised"

ComputeIVCalled == args.fn = "compute_iv" /\ ret.status # "pending"

\* The outcomes every call of compute_iv has: it returns, report and IV both or
\* neither; (None, None) when no row has feature and label, and when fewer than two
\* bins can be realized (fewer than 2 rows kept, or bins < 2, a negative count, which
\* makes qcut throw, included).
ReturnsPairOrNone ==
    /\ ret.status = "returned"
    /\ ret.value.report = None <=> ret.value.iv = None
    /\ KeptRows = {} => ret.value = NoneNone
    /\ (Cardinality(KeptRows) < 2 \/ args.bins < 2) => ret.value = NoneNone

\* C27 as stated: compute_iv never raises and returns (report, IV) or (None, None);
\* (None, None) in the cases above and whenever the label column holds a value
\* other than 0 or 1.
C27_NoneWhenLabelColumnNotBinary ==
    ComputeIVCalled =>
        /\ ReturnsPairOrNone
        /\ (\E i \in 1..Len(df[args.target]) : df[args.target][i] \notin {0, 1, NaN}) =>
              ret.value = NoneNone

\* C27, amended: the labels checked are those of the rows that have both feature
\* and label.
C27_NoneWhenKeptLabelNotBinary ==
    ComputeIVCalled =>
        /\ ReturnsPairOrNone
        /\ ~(KeptLabels \subseteq {0, 1}) => ret.value = NoneNone

\* A label other than 0 and 1 among rows that hold both classes: (None, None).
C27_Witness ==
    /\ ComputeIVCalled /\ args.bins >= 2 /\ ~args.relabelled
    /\ {0, 1, 2} \subseteq KeptLabels
    /\ DistinctFeatureValues >= 2
    /\ ret = Returned(NoneNone)

\* C28: in every report of compute_iv each bin has count = good + bad with neither
\* negative; the counts add up to the rows that have feature and label, the goods to
\* the rows labelled 1 and the bads to the rows labelled 0 among them, both totals
\* above 0; there are at least 2 bins; and IV is the sum of the iv_bin column, term
\* for term.
C28_ReportCountsAddUp ==
    (IVCalled /\ HasReport(ret)) =>
        LET rep == ReportOf(ret)
            column(name) == [j \in 1..Len(rep) |-> rep[j][name]]
        IN /\ \A j \in 1..Len(rep) :
                 rep[j].count = rep[j].good + rep[j].bad /\ rep[j].good >= 0 /\ rep[j].bad >= 0
           /\ SumSeq(column("count")) = Cardinality(KeptRows)
           /\ SumSeq(column("good")) = Cardinality({i \in KeptRows : df[args.target][i] = 1})
           /\ SumSeq(column("bad")) = Cardinality({i \in KeptRows : df[args.target][i] = 0})
           /\ SumSeq(column("good")) > 0 /\ SumSeq(column("bad")) > 0
           /\ Len(rep) >= 2
           /\ IVTermsOf(ret) = column("iv_bin")

\* A report over 5 rows, one of them without a feature value, in 2 bins of 2 rows.
C28_Witness ==
    /\ IVCalled /\ HasReport(ret)
    /\ Cardinality(KeptRows) = 4 /\ Len(df[args.feature]) = 5
    /\ Len(ReportOf(ret)) = 2
    /\ \A j \in 1..2 : ReportOf(ret)[j].count = 2

(***************************************************************************)
(* Inputs of the binning step alone: a column of m rows around 10*k and    *)
(* the bin count k, 2 <= k <= 10 (the choices of the IV tab; 10 in Lift).  *)
(* The column repeats 1..p down (or up) the rows; its first row may be     *)
(* missing.                                                                *)
(***************************************************************************)
ExtraRowsBin == 2


BinRows(k) == {10 * k - 1 + e : e \in 0..(ExtraRowsBin + 1)}

\* Columns of a few rows, the first of them missing or not, at least one present
MaxSmallRows == 3
SmallFrames ==
    UNION {{[x |-> Masked(Ramp(p, m, up), mk)] :
               p \in {1, 2}, up \in BOOLEAN, mk \in {{}, {1} \cap (1..(m - 1))}} :
           m \in 1..MaxSmallRows}

BinFrames(k) ==
    SmallFrames \cup
    {[x |-> Masked(Ramp(p, m, up), mk)] :
        p \in {1, k, k + 1}, m \in BinRows(k), up \in BOOLEAN, mk \in {{}, {1}}}
    \cup {[x |-> Masked(Ramp(m, m, up), mk)] :
        m \in BinRows(k), up \in BOOLEAN, mk \in {{}, {1}}}

InitBin ==
    /\ args \in {[fn |-> "qcut", k |-> k] : k \in 2..LiftBins}
    /\ df \in BinFrames(args.k)
    /\ ret = Pending
    /\ prev = Pending
    /\ session_state = NoSession

\* pd.qcut(df[x].rank(method="first"), q=k, duplicates="drop"), the binning step of
\* compute_iv and of build_lift_reports
CallQcut ==
    /\ args.fn = "qcut"
    /\ ret.status = "pending"
    /\ ret' = Returned(QcutRank(df.x, args.k))
    /\ UNCHANGED <<df, args, prev, session_state>>

NextBin == CallQcut

SpecBin == InitBin /\ [][NextBin]_vars

\* C8: on a column with n non-missing rows, n >= 10*k, and at least k distinct
\* values, the binning realizes exactly k bins, every non-missing row is in one of
\* them, and every bin's row count differs from n/k by at most 1.
C8_EqualPopulationBins ==
    LET n == Len(NotNa(df.x))
        k == args.k
        distinct == Cardinality({df.x[i] : i \in 1..Len(df.x)} \ {NaN})
        size(b) == Cardinality({i \in 1..Len(df.x) : ret.value.codes[i] = b})
    IN (args.fn = "qcut" /\ ret.status = "returned" /\ n >= 10 * k /\ distinct >= k) =>
          /\ ret.value.ncat = k
          /\ \A i \in 1..Len(df.x) : (df.x[i] # NaN) <=> (ret.value.codes[i] \in 1..k)
          /\ \A b \in 1..k :
                /\ size(b) > 0
                /\ size(b) * k - n <= k
                /\ n - size(b) * k <= k

\* 10 bins of 101 rows (one of 102 missing), the rows holding 10 values with ties: a
\* bin of 11 rows beside bins of 10.
C8_Witness ==
    /\ args.fn = "qcut" /\ ret.status = "returned" /\ args.k = 10
    /\ Len(NotNa(df.x)) = 101 /\ AnyNa(df.x)
    /\ Cardinality({df.x[i] : i \in 1..Len(df.x)} \ {NaN}) = 10
    /\ Cardinality({i \in 1..Len(df.x) : ret.value.codes[i] = 1}) = 11
    /\ Cardinality({i \in 1..Len(df.x) : ret.value.codes[i] = 2}) = 10

QcutCalled == args.fn = "qcut" /\ ret.status = "returned"

\* The rows in a bin, in the order of the ranking: by value, equal values by row
Binned(i) == ret.value.codes[i] # NaN
Before(a, b) == df.x[a] < df.x[b] \/ (df.x[a] = df.x[b] /\ a < b)
\* The report rows of the binning, ascending whichever groupby default applies
KeysAscending ==
    \A observed \in ObservedDefaults :
        LET keys == GroupKeys(ret.value, observed)
        IN \A j \in 1..(Len(keys) - 1) : keys[j] < keys[j + 1]

\* C29 as stated: the bins are an ordered partition of the rows that have a value:
\* each such row is in exactly one bin and a row without a value in none; the report
\* rows are in ascending bin order; a row is in the same or a lower bin than every
\* row with a higher value, and than the later rows with the same value.
C29_OrderedPartition ==
    QcutCalled =>
        /\ \A i \in 1..Len(df.x) : df.x[i] # NaN <=> ret.value.codes[i] \in 1..ret.value.ncat
        /\ KeysAscending
        /\ \A a, b \in 1..Len(df.x) :
              (Binned(a) /\ Binned(b) /\ Before(a, b)) => ret.value.codes[a] <= ret.value.codes[b]

\* C29, amended: the same for a column with at least two values; a single value is
\* left without a bin.
C29_OrderedPartitionOfTwoOrMore ==
    QcutCalled =>
        /\ Len(NotNa(df.x)) >= 2 =>
              \A i \in 1..Len(df.x) : df.x[i] # NaN <=> ret.value.codes[i] \in 1..ret.value.ncat
        /\ Len(NotNa(df.x)) = 1 => \A i \in 1..Len(df.x) : ~Binned(i)
        /\ \A i \in 1..Len(df.x) : df.x[i] = NaN => ~Binned(i)
        /\ KeysAscending
        /\ \A a, b \in 1..Len(df.x) :
              (Binned(a) /\ Binned(b) /\ Before(a, b)) => ret.value.codes[a] <= ret.value.codes[b]

\* Two rows with the same value, one after the other, in two adjacent bins, in a
\* column with a missing cell.
C29_Witness ==
    /\ QcutCalled /\ AnyNa(df.x)
    /\ \E a, b \in 1..Len(df.x) :
          /\ a < b /\ df.x[a] = df.x[b] /\ df.x[a] # NaN
          /\ ret.value.codes[b] = ret.value.codes[a] + 1

(***************************************************************************)
(* Inputs of build_lift_reports: a target column "y" and the features "x"  *)
(* and "z" over n rows, LiftMinRows <= n <= LiftMinRows + ExtraRowsLift.   *)
(* A column is a short pattern of values repeated down the rows, with the  *)
(* cells of some of the first MaxNaNRows rows, or all cells, missing.      *)
(***************************************************************************)
ExtraRowsLift == 1


\* The dataset x = 1..100, y = 1..100 (and an empty or a two-valued z)
RampFrames ==
    {("y" :> Ramp(100, 100, TRUE)) @@ ("x" :> Ramp(100, 100, TRUE)) @@ ("z" :> zc) :
        zc \in {Cyc(<<NaN>>, 100), Cyc(<<2, 1>>, 100)}}

\* A dataset whose first row has no target and a feature value above the others,
\* and whose second row has no x
OrderFrames ==
    {("y" :> Masked(Cyc(<<1, 2>>, LiftMinRows + 1), {1}))
       @@ ("x" :> <<3, NaN>> \o [i \in 1..(LiftMinRows - 1) |-> IF 2 * i <= LiftMinRows THEN 1 ELSE 2])
       @@ ("z" :> Cyc(<<2, 1>>, LiftMinRows + 1))}

LiftFrames ==
    RampFrames \cup OrderFrames \cup
    UNION {
        {("y" :> yc) @@ ("x" :> xc) @@ ("z" :> zc) :
            yc \in MaskedColumns(Patterns({1, 2}, 1..2), n),
            xc \in MaskedColumns(Patterns({1, 2}, 1..2), n),
            zc \in {Cyc(<<NaN>>, n), Cyc(<<2, 1>>, n)}} :
        n \in LiftMinRows..(LiftMinRows + ExtraRowsLift)}

\* A strategy selectbox is disabled while its checkbox is off and then holds its
\* default, "median" (index=1).
LiftArgs ==
    {[fn |-> "build_lift_reports", target |-> "y",
      impute_target |-> it, target_imp |-> ts, impute_feat |-> if, feat_imp |-> fs] :
        it \in BOOLEAN, ts \in Strategies, if \in BOOLEAN, fs \in Strategies}
LiftCalls == {a \in LiftArgs : /\ (~a.impute_target => a.target_imp = "median")
                               /\ (~a.impute_feat => a.feat_imp = "median")}

\* pd.cut checks that its edges increase with np.diff(bins) < 0, which a nan edge
\* passes, or with Index.is_monotonic_increasing, which it fails, depending on the
\* pandas release: either may be the one installed.
EdgeChecks == BOOLEAN

InitLift ==
    /\ df \in LiftFrames
    /\ args \in LiftCalls
    /\ ret = Pending
    /\ prev = Pending
    /\ session_state = NoSession

\* build_lift_reports(df, target, impute_target, target_imp, impute_feat, feat_imp):
\* works on df.copy()
CallBuildLift ==
    /\ args.fn = "build_lift_reports"
    /\ ret.status = "pending"
    /\ \E strict_edges \in EdgeChecks :
          ret' = build_lift_reports(df, args.target, args.impute_target, args.target_imp,
                                    args.impute_feat, args.feat_imp, strict_edges)
    /\ df' = Copied(df, build_lift_writes(df, args.target, args.impute_target, args.target_imp,
                                          args.impute_feat, args.feat_imp))
    /\ UNCHANGED <<args, prev, session_state>>

NextLift == CallBuildLift

SpecLift == InitLift /\ [][NextLift]_vars

(***************************************************************************)
(* Claims about build_lift_reports.                                        *)
(***************************************************************************)
LiftCalled == args.fn = "build_lift_reports" /\ ret.status = "returned"
LiftReports == ret.value
\* sum of count_i and of count_i * good_rate_i over the bins of a lift table
SumCount(rep) == SumSeq([b \in 1..Len(rep) |-> rep[b].count])
SumGood(rep) ==
    SumSeq([b \in 1..Len(rep) |-> (rep[b].count * rep[b].good_rate[1]) \div rep[b].good_rate[2]])
\* The rows that have a target once the target is (optionally) imputed
RowsWithTarget ==
    IF args.impute_target /\ ~AllNa(df[args.target]) THEN Len(df[args.target])
    ELSE Len(NotNa(df[args.target]))
\* lift_i = good_rate_i / (sum(count*good_rate) / sum(count)) in every bin: the lift
\* denominator is the count-weighted mean of the good rates (both 0 when lift is nan)
BaselineIsWeightedMean(rep) ==
    \/ SumGood(rep) = 0 /\ \A b \in 1..Len(rep) : rep[b].lift = NaNR
    \/ /\ SumGood(rep) > 0
       /\ \A b \in 1..Len(rep) :
             /\ rep[b].lift # NaNR
             /\ rep[b].lift[1] * SumGood(rep) * rep[b].good_rate[2]
                   = rep[b].good_rate[1] * rep[b].lift[2] * SumCount(rep)

\* C2 as stated: in every lift report, whatever the imputation flags and the missing
\* feature values, the count-weighted mean of good_rate is the overall good rate
\* the lifts were divided by.
C2_BaselineAlways ==
    LiftCalled => \A f \in DOMAIN LiftReports : BaselineIsWeightedMean(LiftReports[f])

\* C2 (amended): in every lift report whose bins hold every row that has a target
\* (the feature has no missing value on those rows, as after feature imputation),
\* the count-weighted mean of good_rate is the overall good rate the lifts were
\* divided by.
C2_BaselineWhenAllRowsBinned ==
    LiftCalled =>
        \A f \in DOMAIN LiftReports :
            SumCount(LiftReports[f]) = RowsWithTarget => BaselineIsWeightedMean(LiftReports[f])

\* A report of x, imputed, with every row binned, a bin above and a bin below the
\* baseline.
C2_Witness ==
    /\ LiftCalled /\ args.impute_feat /\ AnyNa(df["x"])
    /\ "x" \in DOMAIN LiftReports
    /\ SumCount(LiftReports["x"]) = RowsWithTarget
    /\ \E b \in 1..Len(LiftReports["x"]) :
          LiftReports["x"][b].lift # NaNR /\ LiftReports["x"][b].lift[1] > LiftReports["x"][b].lift[2]
    /\ \E b \in 1..Len(LiftReports["x"]) :
          LiftReports["x"][b].lift # NaNR /\ LiftReports["x"][b].lift[1] < LiftReports["x"][b].lift[2]

\* C4: build_lift_reports counts a row good exactly when its target is >= the median
\* of the non-missing targets, the labelling of bin_target_for_iv(method='median'):
\* without imputation, the goods of a feature's report are the rows with the feature
\* whose target is >= the median.
C4_LiftUsesMedianSplit ==
    (LiftCalled /\ ~args.impute_target /\ ~args.impute_feat) =>
        \A f \in DOMAIN LiftReports :
            /\ SumGood(LiftReports[f])
                  = Cardinality({i \in 1..Len(df[f]) :
                        df[f][i] # NaN /\ AtLeastMedian(df[args.target], df[args.target][i])})
            /\ SumGood(LiftReports[f])
                  = Cardinality({i \in 1..Len(df[f]) :
                        /\ df[f][i] # NaN
                        /\ bin_target_for_iv(df[args.target], "median", None, Half).value[i] = 1})

\* C5: when the overall good rate is 0 or 1, as with a constant target, the call
\* returns an empty mapping: no report is returned for a constant target, and no
\* returned report holds a nan or infinite lift.
C5_DegenerateBaselineGivesNoReport ==
    LiftCalled =>
        /\ ConstantTarget => DOMAIN LiftReports = {}
        /\ \A f \in DOMAIN LiftReports : \A b \in 1..Len(LiftReports[f]) :
              LiftReports[f][b].lift # NaNR /\ LiftReports[f][b].lift # Inf

\* The good rate of all rows that have a target (after the optional imputation of the
\* target), a row being good when its target is above the median
OverallGoodRate ==
    LET tcol == ImputedTarget(df, args.target, args.impute_target, args.target_imp)[args.target]
        good == LiftGood(tcol)
    IN Rat(Cardinality({i \in 1..Len(tcol) : good[i]}), Len(NotNa(tcol)))

\* The rows of the dataset in the bins of feature f: with a target and a value of f,
\* either one imputed or not
RowsBinned(f) ==
    Cardinality({i \in 1..Len(df[f]) :
        /\ df[args.target][i] # NaN \/ args.impute_target
        /\ df[f][i] # NaN \/ args.impute_feat})

\* v = n / d for rationals n and d >= 0, v being nan for 0 / 0
IsQuotient(v, n, d) ==
    IF d[1] = 0 THEN (n[1] = 0 => v = NaNR)
    ELSE v # NaNR /\ v[2] > 0 /\ v[1] * n[2] * d[1] = n[1] * d[2] * v[2]

\* C18: in every lift report each bin's lift is the bin's good rate divided by the
\* overall good rate of all rows with a target, and the counts are the bins' row
\* counts (whole numbers of good rows, adding up to the rows binned); for x = 1..100
\* and y = 1..100 the report of x has 10 bins of 10 rows, the overall rate is 1/2,
\* the lift of the bottom bin is 0 and that of the top bin is 2.
C18_LiftIsRateOverBaseline ==
    LiftCalled =>
        /\ \A f \in DOMAIN LiftReports :
              LET rep == LiftReports[f]
              IN /\ \A b \in 1..Len(rep) :
                       /\ IsQuotient(rep[b].lift, rep[b].good_rate, OverallGoodRate)
                       /\ rep[b].count > 0
                       /\ rep[b].good_rate[2] = rep[b].count
                       /\ rep[b].good_rate[1] \in 0..rep[b].count
                 /\ SumCount(rep) = RowsBinned(f)
        /\ (df["x"] = Ramp(100, 100, TRUE) /\ df["y"] = Ramp(100, 100, TRUE)) =>
              /\ "x" \in DOMAIN LiftReports
              /\ LET rep == LiftReports["x"]
                 IN /\ Len(rep) = 10
                    /\ \A b \in 1..10 : rep[b].count = 10
                    /\ 2 * OverallGoodRate[1] = OverallGoodRate[2]
                    /\ rep[1].lift[1] = 0 /\ rep[1].lift[2] > 0
                    /\ rep[10].lift[1] = 2 * rep[10].lift[2]

\* The report of x = 1..100 against y = 1..100 with its top lift of 2.
C18_Witness ==
    /\ LiftCalled
    /\ df["x"] = Ramp(100, 100, TRUE) /\ df["y"] = Ramp(100, 100, TRUE)
    /\ "x" \in DOMAIN LiftReports
    /\ LiftReports["x"][10].lift[1] = 2 * LiftReports["x"][10].lift[2]

(***************************************************************************)
(* Inputs of categorize_iv: the IV values n / IVDen, -MaxIVNum <= n <=     *)
(* MaxIVNum. The caller categorizes one value and then another (the rows   *)
(* of the IV ranking); prev keeps the first value and its category.        *)
\* The features of the dataset without any value, and the dataset without them
EmptyFeatures == {c \in DOMAIN df \ {args.target} : AllNa(df[c])}
WithoutEmptyFeatures == [c \in DOMAIN df \ EmptyFeatures |-> df[c]]

\* C26: with feature imputation on, a feature without any value does not make
\* build_lift_reports fail: the call returns, the feature has no report, and the
\* reports are those of the dataset without that feature.
C26_EmptyFeatureSkippedNotFatal ==
    (/\ args.fn = "build_lift_reports" /\ ret.status # "pending" /\ "varied" \notin DOMAIN args
     /\ args.impute_feat /\ ~AllNa(df[args.target])
     /\ EmptyFeatures # {}) =>
        /\ ret.status = "returned"
        /\ DOMAIN ret.value \cap EmptyFeatures = {}
        /\ \E strict_edges \in EdgeChecks :
              ret = build_lift_reports(WithoutEmptyFeatures, args.target, args.impute_target,
                                       args.target_imp, args.impute_feat, args.feat_imp, strict_edges)

\* The features imputed over the rows that have a target: rows without one are
\* dropped first
ImputedAfterDrop(d, target, impute_target, target_imp, feat_imp) ==
    LET d1 == ImputedTarget(d, target, impute_target, target_imp)
        dropped == TakeRows(d1, TargetRows(d1, target))
    IN [c \in DOMAIN d |-> IF c # target /\ AnyNa(dropped[c]) /\ ~AllNa(dropped[c])
                             THEN Imputed(dropped[c], feat_imp) ELSE dropped[c]]

\* C24: rows without a target are dropped before the features are imputed: the
\* report of a feature is the one of its column imputed over the rows that have a
\* target.
C24_ImputedOverRowsWithTarget ==
    (LiftCalled /\ args.impute_feat) =>
        LET clean == ImputedAfterDrop(df, args.target, args.impute_target, args.target_imp,
                                      args.feat_imp)
            good == LiftGood(clean[args.target])
            overall == Rat(Cardinality({i \in 1..Len(good) : good[i]}), Len(good))
        IN \A f \in DOMAIN LiftReports :
              LiftReports[f] = LiftTable(QcutRank(clean[f], LiftBins).codes,
                                         QcutRank(clean[f], LiftBins).ncat, good, overall)

(***************************************************************************)
IVDen == 100
MaxIVNum == 60

IVValues == {<<n, IVDen>> : n \in (0 - MaxIVNum)..MaxIVNum}

InitCategorize ==
    /\ df = <<>>
    /\ args \in {[fn |-> "categorize_iv", iv_value |-> v] : v \in IVValues}
    /\ ret = Pending
    /\ prev = Pending
    /\ session_state = NoSession

CallCategorize ==
    /\ args.fn = "categorize_iv"
    /\ ret.status = "pending"
    /\ ret' = Returned(categorize_iv(args.iv_value))
    /\ UNCHANGED <<df, args, prev, session_state>>

CallCategorizeNext ==
    /\ args.fn = "categorize_iv"
    /\ ret.status = "returned"
    /\ prev.status = "pending"
    /\ \E v \in IVValues :
          /\ args' = [args EXCEPT !.iv_value = v]
          /\ ret' = Returned(categorize_iv(v))
    /\ prev' = Returned([iv_value |-> args.iv_value, category |-> ret.value])
    /\ UNCHANGED session_state
    /\ UNCHANGED df

NextCategorize == CallCategorize \/ CallCategorizeNext

SpecCategorize == InitCategorize /\ [][NextCategorize]_vars

\* The buckets in ascending order
BucketRank(c) ==
    CASE c = "Not useful" -> 1 [] c = "Weak" -> 2 [] c = "Medium" -> 3 [] c = "Strong" -> 4
      [] c = "Suspicious / Too good" -> 5 [] OTHER -> 0

LiftDen == 20
LiftSpread == 8
MaxStrengthBins == 3

LiftCells == {NaNR} \cup {<<a, LiftDen>> : a \in (LiftDen - LiftSpread)..(LiftDen + LiftSpread)}

InitStrength ==
    /\ df \in {[lift |-> col] : col \in UNION {[1..k -> LiftCells] : k \in 1..MaxStrengthBins}}
    /\ args = [fn |-> "feature_strength"]
    /\ ret = Pending
    /\ prev = Pending
    /\ session_state = NoSession

\* The "Feature Strength" metric of the selected feature's lift table
ShowStrength ==
    /\ args.fn = "feature_strength"
    /\ ret.status = "pending"
    /\ ret' = Returned(FeatureStrength(df.lift))
    /\ UNCHANGED <<df, args, prev, session_state>>

NextStrength == ShowStrength

SpecStrength == InitStrength /\ [][NextStrength]_vars

\* The non-missing lifts of the column, and n * (n - 1) * D^2 times their sample
\* variance as the sum of the squared pairwise differences
PresentLifts == SelectSeq(df.lift, LAMBDA v : v # NaNR)
PairwiseSquares ==
    LET xs == PresentLifts
    IN SumSeq([p \in 1..(Len(xs) * Len(xs)) |->
                 LET i == ((p - 1) \div Len(xs)) + 1
                     j == ((p - 1) % Len(xs)) + 1
                 IN IF i < j THEN (xs[i][1] - xs[j][1]) * (xs[i][1] - xs[j][1]) ELSE 0])

\* C17: every lift column gets exactly one of High, Medium, Low; with sigma the
\* (sample) standard deviation of its lifts, defined when two lifts or more are
\* present, sigma > 0.3 gives High, 0.15 < sigma <= 0.3 Medium, sigma <= 0.15 Low.
C17_StrengthFromSigma ==
    (args.fn = "feature_strength" /\ ret.status # "pending") =>
        /\ ret.status = "returned"
        /\ ret.value \in {"High", "Medium", "Low"}
        /\ Len(PresentLifts) >= 2 =>
              LET n == Len(PresentLifts)
                  Q == PairwiseSquares
                  V == n * (n - 1) * LiftDen * LiftDen
              IN /\ (100 * Q > 9 * V) <=> ret.value = "High"
                 /\ (400 * Q > 9 * V /\ 100 * Q <= 9 * V) <=> ret.value = "Medium"
                 /\ (400 * Q <= 9 * V) <=> ret.value = "Low"

\* The lifts 0.7, 1.0, 1.3, whose sigma is 0.3 exactly, got Medium.
C17_Witness ==
    /\ args.fn = "feature_strength" /\ ret.status = "returned"
    /\ df.lift = <<<<14, 20>>, <<20, 20>>, <<26, 20>>>>
    /\ ret.value = "Medium"

(***************************************************************************)
(* The three entry points that are handed the caller's dataset, each on    *)
(* its own inputs.                                                         *)
(***************************************************************************)
InitFrame == InitIV \/ InitShowIV \/ InitLift

NextFrame == CallComputeIV \/ CallShowIV \/ CallBuildLift

SpecFrame == InitFrame /\ [][NextFrame]_vars

\* C15: a call of compute_iv, show_iv_analysis or build_lift_reports that completes,
\* by returning, skipping or raising, leaves the caller's dataset with the columns
\* and the values it had.
C15_DatasetUnchanged ==
    [][(ret.status = "pending" /\ ret'.status # "pending") => df' = df]_vars

\* build_lift_reports has returned a report after imputing both the target and a
\* feature, and the dataset still has its missing cells and its three columns.
C15_Witness ==
    /\ LiftCalled /\ args.impute_target /\ args.impute_feat
    /\ DOMAIN LiftReports # {}
    /\ DOMAIN df = {"y", "x", "z"}
    /\ AnyNa(df["y"]) /\ AnyNa(df["x"])

\* The dataset with the target and one feature only
Only(d, target, f) == [c \in {target, f} |-> d[c]]

\* What each engine returns for feature f when f is the only feature
LiftAlone(f) ==
    build_lift_reports(Only(df, args.target, f), args.target, args.impute_target,
                       args.target_imp, args.impute_feat, args.feat_imp, TRUE)
ShowIVAlone(f) ==
    show_iv_analysis(Only(df, args.target, f), args.target, args.impute_target,
                     args.target_imp, args.binning.method, args.binning.q,
                     args.binning.cutoff, args.impute_feat, args.feat_imp, args.bins,
                     args.observed)

\* C19: a feature that cannot be analyzed takes only itself out of the result: every
\* feature that gets a report when it is the only feature of the dataset gets the
\* same report next to the other features, in the Lift loop and in the IV loop.
C19_OtherFeaturesStillReported ==
    /\ (args.fn = "build_lift_reports" /\ ret.status # "pending") =>
          \A f \in DOMAIN df \ {args.target} :
              (LiftAlone(f).status = "returned" /\ f \in DOMAIN LiftAlone(f).value) =>
                  /\ ret.status = "returned"
                  /\ f \in DOMAIN ret.value
                  /\ ret.value[f] = LiftAlone(f).value[f]
    /\ (args.fn = "show_iv_analysis" /\ ret.status # "pending") =>
          \A f \in DOMAIN df \ {args.target} :
              (ShowIVAlone(f).status = "returned" /\ f \in DOMAIN ShowIVAlone(f).value) =>
                  /\ ret.status = "returned"
                  /\ f \in DOMAIN ret.value
                  /\ ret.value[f] = ShowIVAlone(f).value[f]

\* C20 as stated: a feature of the dataset with fewer than 10 non-missing values gets
\* no Lift report, one with fewer than 5 distinct non-missing values gets no IV
\* report, and neither mapping has the target (or the label column) as a key.
C20_SkippedBelowThreshold ==
    /\ LiftCalled =>
          /\ \A f \in DOMAIN df \ {args.target} :
                Len(NotNa(df[f])) < LiftMinRows => f \notin DOMAIN LiftReports
          /\ args.target \notin DOMAIN LiftReports
    /\ (ShowIVCalled /\ ret.status = "returned") =>
          /\ \A f \in DOMAIN df \ {args.target} :
                NUnique(df[f]) < IVMinDistinct => f \notin DOMAIN ret.value
          /\ DOMAIN ret.value \cap {args.target, IVTarget} = {}

\* The values of feature f the Lift loop counts: those of the rows with a target,
\* every such row once the features are imputed
LiftValueCount(f) ==
    Cardinality({i \in 1..Len(df[f]) : TargetKept(i) /\ (df[f][i] # NaN \/ args.impute_feat)})

\* The distinct values of feature f the IV loop counts: those of the rows with a
\* target, with the fill value (0 for a feature without values) once the features
\* are imputed
IVDistinctCount(f) ==
    LET rows == {i \in 1..Len(df[f]) : TargetKept(i)}
        vals == {df[f][i] : i \in rows} \ {NaN}
        col == [i \in 1..Len(df[f]) |-> IF i \in rows THEN df[f][i] ELSE NaN]
        fill == Statistic(col, args.feat_imp)
    IN IF ~(args.impute_feat /\ NeedsImpute(f)) THEN Cardinality(vals)
       ELSE IF vals = {} THEN 1
       ELSE IF \E v \in vals : v * fill[2] = fill[1] THEN Cardinality(vals)
       ELSE Cardinality(vals) + 1

\* C20, amended: the thresholds apply to the working copy, after the optional
\* imputation and without the rows that lack a target. A feature gets a Lift report
\* exactly when it has 10 values or more there, and no IV report when it has fewer
\* than 5 distinct values there; the target and the label column are never keys.
C20_SkippedBelowThresholdOnWorkingCopy ==
    /\ LiftCalled =>
          /\ \A f \in DOMAIN df \ {args.target} :
                LiftValueCount(f) < LiftMinRows <=> f \notin DOMAIN LiftReports
          /\ args.target \notin DOMAIN LiftReports
    /\ (ShowIVCalled /\ ret.status = "returned") =>
          /\ \A f \in DOMAIN df \ {args.target} :
                IVDistinctCount(f) < IVMinDistinct => f \notin DOMAIN ret.value
          /\ DOMAIN ret.value \cap {args.target, IVTarget} = {}

\* Without imputation, x with 9 values in 10 rows got no Lift report and z did.
C20_Witness ==
    /\ LiftCalled /\ ~args.impute_feat /\ ~args.impute_target
    /\ Len(df["x"]) = 10 /\ Len(NotNa(df["x"])) = 9 /\ ~AnyNa(df["y"])
    /\ DOMAIN LiftReports = {"z"}

(***************************************************************************)
(* Two calls of build_lift_reports on datasets that agree on one feature   *)
(* and on the target: the session's dataset is replaced by one with other  *)
(* columns next to these two, and the reports are built again.             *)
(***************************************************************************)
ExtraRowsPair == 0

PairColumns(n) ==
    {Cyc(<<1, 2>>, n), Cyc(<<2, 1, 1>>, n), Masked(Cyc(<<1, 2>>, n), {1}), Cyc(<<NaN>>, n)}
PairTargets(n) == {Cyc(<<1, 2>>, n), Cyc(<<1, 2, 2>>, n), Masked(Cyc(<<2, 1>>, n), {1})}

\* The feature both datasets hold, and the names the other columns may have
KeptFeatures == {"x", "x_bin"}
OtherNames(kept) == {"x", "z", "x_bin", "target_bin"} \ {kept}

\* No other column, or one
OtherColumns(kept, n) ==
    {EmptyMapping} \cup {(o :> oc) : o \in OtherNames(kept), oc \in PairColumns(n)}

PairCalls == {a \in LiftCalls : a.target_imp = "median" /\ a.feat_imp = "median"}

InitPair ==
    \E n \in LiftMinRows..(LiftMinRows + ExtraRowsPair), kept \in KeptFeatures :
        /\ df \in {("y" :> yc) @@ (kept :> kc) @@ oth :
                      yc \in PairTargets(n), kc \in PairColumns(n), oth \in OtherColumns(kept, n)}
        /\ args \in {a @@ [kept |-> kept, varied |-> FALSE] : a \in PairCalls}
        /\ ret = Pending
        /\ prev = Pending
        /\ session_state = NoSession

\* Another dataset is loaded that has the same target and the same kept feature,
\* and build_lift_reports runs on it with the same settings; prev keeps the outcome
\* of the first call.
CallBuildLiftVaried ==
    /\ args.fn = "build_lift_reports"
    /\ "varied" \in DOMAIN args
    /\ ~args.varied
    /\ ret.status # "pending"
    /\ \E oth \in OtherColumns(args.kept, Len(df[args.target])), strict_edges \in EdgeChecks :
          LET varied == (args.target :> df[args.target]) @@ (args.kept :> df[args.kept]) @@ oth
          IN /\ ret' = build_lift_reports(varied, args.target, args.impute_target, args.target_imp,
                                          args.impute_feat, args.feat_imp, strict_edges)
             /\ df' = Copied(varied, build_lift_writes(varied, args.target, args.impute_target,
                                                       args.target_imp, args.impute_feat, args.feat_imp))
    /\ args' = [args EXCEPT !.varied = TRUE]
    /\ prev' = ret
    /\ UNCHANGED session_state

NextPair == CallBuildLift \/ CallBuildLiftVaried

SpecPair == InitPair /\ [][NextPair]_vars

\* The report a call gave the kept feature, if any
KeptReport(r) ==
    IF r.status = "returned" /\ args.kept \in DOMAIN r.value THEN Some(r.value[args.kept]) ELSE None

\* C21: the report of a feature depends only on its own column and the target: two
\* datasets that agree on both, whatever their other columns hold or are called,
\* give the feature the same report.
C21_ReportDependsOnFeatureAndTarget ==
    (args.fn = "build_lift_reports" /\ "varied" \in DOMAIN args /\ args.varied) =>
        KeptReport(ret) = KeptReport(prev)

(***************************************************************************)
(* The session: src/app.py runs from top to bottom on every rerun, with    *)
(* st.session_state kept in between. show_data_load stores the dataset     *)
(* under "df"; show_lift_analysis stores "lift_reports" and "lift_meta".   *)
(***************************************************************************)
\* st.session_state.get(key, default)
Get(ss, key, default) == IF key \in DOMAIN ss THEN ss[key] ELSE default

\* st.session_state[key] = value
Stored(ss, key, value) == [k \in DOMAIN ss \cup {key} |-> IF k = key THEN value ELSE ss[k]]

\* The outcome of a call: the session state it leaves, what it returns or raises,
\* and whether it called build_lift_reports
Outcome(ss, r, called) == [session |-> ss, result |-> r, built |-> called]

\* df is None
IsNone(d) == DOMAIN d = {}

\* show_data_load with the read failing as well as succeeding: the result of the
\* attempt, None after a failure, is stored
show_data_load_stores_failure(ss, attempt) ==
    IF attempt.outcome = "mapping_error" THEN Outcome(ss, Raised("Exception"), FALSE)
    ELSE LET ss1 == IF attempt.outcome = "ok" THEN Stored(ss, "df", attempt.data)
                    ELSE IF attempt.outcome = "none" THEN ss
                    ELSE Stored(ss, "df", None)
         IN Outcome(ss1, Returned(Get(ss1, "df", None)), FALSE)

\* show_data_load(): what the chosen source does in this rerun is the attempt.
\*   "ok"              a read (pd.read_csv, or the Snowflake fetch, pivot and save)
\*                     succeeded with attempt.data: it is stored under "df"
\*   "read_error"      pd.read_csv raised: caught, reported
\*   "not_found"       the path entered does not exist: a warning
\*   "snowflake_error" read_source_table, pivot_master_data or to_csv raised: caught
\*   "none"            no button pressed, no file uploaded, or no plant and stage
\*   "mapping_error"   get_plant_stage_mapping raised: nothing catches it
\* It returns st.session_state.get("df").
show_data_load(ss, attempt) ==
    IF attempt.outcome = "mapping_error" THEN Outcome(ss, Raised("Exception"), FALSE)
    ELSE LET ss1 == IF attempt.outcome = "ok" THEN Stored(ss, "df", attempt.data) ELSE ss
         IN Outcome(ss1, Returned(Get(ss1, "df", None)), FALSE)

\* st.session_state.lift_reports = built reports; st.session_state.lift_meta = settings
StoreBuilt(ss, settings, built) ==
    Stored(Stored(ss, "lift_reports", built.value), "lift_meta", settings)

\* lift_reports = st.session_state.get("lift_reports", {}): the reports displayed
ShowStored(ss, called) == Outcome(ss, Returned(Get(ss, "lift_reports", EmptyMapping)), called)

\* The body of show_lift_analysis, given whether it rebuilds and what
\* build_lift_reports gives if called
LiftTab(ss, d, target_col, settings, rebuild, built) ==
    IF IsNone(d) \/ target_col = "" THEN Outcome(ss, Stopped("Load data and select a target first."), FALSE)
    ELSE IF ~rebuild THEN ShowStored(ss, FALSE)
    ELSE IF built.status = "raised" THEN Outcome(ss, built, TRUE)
    ELSE ShowStored(StoreBuilt(ss, settings, built), TRUE)

\* show_lift_analysis rebuilding on every rerun
show_lift_always_builds(ss, d, target_col, im_t, targ_m, im_f, feat_m, strict_edges) ==
    LiftTab(ss, d, target_col, <<target_col, im_t, targ_m, im_f, feat_m>>, TRUE,
            build_lift_reports(d, target_col, im_t, targ_m, im_f, feat_m, strict_edges))

\* show_lift_analysis(df, target_col) up to the reports it goes on to display: the
\* reports are rebuilt when the settings differ from st.session_state.lift_meta,
\* and read from st.session_state.lift_reports. An exception of build_lift_reports
\* leaves both keys as they were.
show_lift_analysis(ss, d, target_col, im_t, targ_m, im_f, feat_m, strict_edges) ==
    LiftTab(ss, d, target_col, <<target_col, im_t, targ_m, im_f, feat_m>>,
            Get(ss, "lift_meta", None) # <<target_col, im_t, targ_m, im_f, feat_m>>,
            build_lift_reports(d, target_col, im_t, targ_m, im_f, feat_m, strict_edges))

(***************************************************************************)
(* Inputs of a session: the datasets a load may bring, the attempts, and   *)
(* the values of the widgets of the Lift tab.                              *)
(***************************************************************************)
SessionFrames ==
    {("y" :> Cyc(<<1, 2>>, LiftMinRows)) @@ ("x" :> Cyc(<<1, 2>>, LiftMinRows)) @@ ("z" :> Cyc(<<2, 1>>, LiftMinRows)),
     ("y" :> Cyc(<<1, 2>>, LiftMinRows)) @@ ("x" :> Cyc(<<2, 2, 1>>, LiftMinRows)) @@ ("z" :> Cyc(<<NaN>>, LiftMinRows))}

LoadAttempts ==
    {[outcome |-> o] : o \in {"none", "read_error", "not_found", "snowflake_error", "mapping_error"}}
    \cup {[outcome |-> "ok", data |-> d] : d \in SessionFrames}

LiftWidgets ==
    {[target_col |-> tc, im_t |-> a.impute_target, targ_m |-> a.target_imp,
      im_f |-> a.impute_feat, feat_m |-> a.feat_imp] :
        tc \in {"", "x", "y"},
        a \in {c \in LiftCalls : ~c.impute_target /\ c.feat_imp = "median"}}

InitSession ==
    /\ df = None
    /\ args = [fn |-> "app"]
    /\ ret = Pending
    /\ prev = Pending
    /\ session_state = NoSession

\* app.py after the Data Load tab returned: the Lift tab on the dataset returned (a
\* warning instead when it is None); an exception of the Data Load tab ends the
\* rerun. The field df is the script's variable df.
AppRun(loaded, w, strict_edges) ==
    IF loaded.result.status = "raised" THEN loaded @@ [df |-> None]
    ELSE IF IsNone(loaded.result.value)
         THEN Outcome(loaded.session, Stopped("Load data first"), FALSE) @@ [df |-> None]
    ELSE show_lift_analysis(loaded.session, loaded.result.value, w.target_col, w.im_t, w.targ_m,
                            w.im_f, w.feat_m, strict_edges) @@ [df |-> loaded.result.value]

\* One rerun of app.py: the Data Load tab, then the Lift tab on the dataset returned
\* (a warning instead when it is None). An exception ends the rerun. df is the
\* script's variable df, ret what the Lift tab got to.
Rerun ==
    /\ args.fn = "app"
    /\ \E attempt \in LoadAttempts, w \in LiftWidgets, strict_edges \in EdgeChecks :
          \E out \in {AppRun(show_data_load(session_state, attempt), w, strict_edges)} :
             /\ args' = [fn |-> "app", attempt |-> attempt, widgets |-> w]
             /\ df' = out.df
             /\ ret' = out.result @@ [built |-> out.built]
             /\ session_state' = out.session
    /\ UNCHANGED prev

NextSession == Rerun

SpecSession == InitSession /\ [][NextSession]_vars

(***************************************************************************)
(* Claims about the session.                                               *)
(***************************************************************************)
Reran == args.fn = "app" /\ "widgets" \in DOMAIN args
ReportsShown == Reran /\ ret.status = "returned" /\ ret.error = ""
SettingsOf(w) == <<w.target_col, w.im_t, w.targ_m, w.im_f, w.feat_m>>

\* C22: the Lift reports displayed are those of the dataset now loaded under the
\* settings now chosen.
C22_ShownReportsAreCurrent ==
    ReportsShown =>
        \E strict_edges \in EdgeChecks :
            LET w == args.widgets
                current == build_lift_reports(df, w.target_col, w.im_t, w.targ_m, w.im_f,
                                              w.feat_m, strict_edges)
            IN current.status = "returned" /\ current.value = ret.value

\* show_lift_analysis got past its guard in the rerun that led to this state
LiftTabRan == Reran /\ ~IsNone(df) /\ args.widgets.target_col # ""

\* C23: in a rerun build_lift_reports is called exactly when the settings differ from
\* the stored tuple; with the same tuple the stored reports are shown and both keys
\* stay as they are; after a rebuild the stored tuple is the settings used and the
\* stored reports are the ones built.
C23_RebuildOnlyOnChangedSettings ==
    [][LET stored == Get(session_state, "lift_meta", None)
           settings == SettingsOf(args'.widgets)
       IN /\ ret'.built <=> (LiftTabRan' /\ stored # settings)
          /\ (LiftTabRan' /\ stored = settings) =>
                /\ session_state'.lift_meta = stored
                /\ session_state'.lift_reports = session_state.lift_reports
                /\ ret'.value = session_state.lift_reports
          /\ (ret'.built /\ ret'.status = "returned") =>
                /\ session_state'.lift_meta = settings
                /\ session_state'.lift_reports = ret'.value]_vars

\* A rerun with the settings of the rerun before showed the stored reports without
\* calling build_lift_reports.
C23_Witness ==
    /\ LiftTabRan /\ ~ret.built /\ ReportsShown
    /\ ret.value # EmptyMapping
    /\ session_state.lift_meta = SettingsOf(args.widgets)

\* C30: the session dataset is the one of the latest successful load. A successful
\* load stores its dataset; a rerun without one leaves the key "df" as it was, absent
\* or present; show_data_load returns the stored dataset, None while there is none.
C30_DatasetFromLatestSuccessfulLoad ==
    /\ [](Reran =>
            /\ args.attempt.outcome = "ok" => session_state.df = args.attempt.data
            /\ args.attempt.outcome # "mapping_error" => df = Get(session_state, "df", None)
            /\ "df" \notin DOMAIN session_state => IsNone(df))
    /\ [][args'.attempt.outcome # "ok" =>
            /\ "df" \in DOMAIN session_state' <=> "df" \in DOMAIN session_state
            /\ Get(session_state', "df", None) = Get(session_state, "df", None)]_vars

\* After a successful load, a rerun whose read failed still returned that dataset.
C30_Witness ==
    /\ Reran /\ args.attempt.outcome = "read_error"
    /\ ~IsNone(df) /\ df = session_state.df /\ df \in SessionFrames

====
